---- MODULE Spec2Model ----
(***************************************************************************)
(* Gravitas: vector-field compute engine, backend dispatcher and the       *)
(* particle (marker) feedback tick.                                        *)
(*                                                                         *)
(* Numbers: the program computes in floating point; the model computes in  *)
(* exact rationals <<n, d>> (d > 0, lowest terms), so equalities stated    *)
(* here are the program's equalities up to floating tolerance.             *)
(***************************************************************************)
EXTENDS Integers, Sequences, FiniteSets, TLC

(***************************************************************************)
(* Exact rational arithmetic                                               *)
(***************************************************************************)
Abs(i) == IF i < 0 THEN -i ELSE i

RECURSIVE GCD(_, _)
GCD(a, b) == IF b = 0 THEN a ELSE GCD(b, a % b)

\* n / d in lowest terms. A zero denominator stands for the float values a
\* division by zero yields: <<1, 0>> inf, <<-1, 0>> -inf, <<0, 0>> nan; every
\* comparison with nan is false, as in the program.
Rat(n, d) ==
    IF n = 0 /\ d = 0 THEN << 0, 0 >>
    ELSE LET g == GCD(Abs(n), Abs(d))
             s == IF d < 0 THEN -1 ELSE 1
         IN  << (s * n) \div g, (s * d) \div g >>

RInt(i) == << i, 1 >>
RZero == << 0, 1 >>
ROne == << 1, 1 >>
RNaN == << 0, 0 >>
\* inf + inf = inf, inf + -inf = nan
RAdd(a, b) ==
    IF a[2] = 0 /\ b[2] = 0 THEN (IF a = b THEN a ELSE RNaN)
    ELSE Rat(a[1] * b[2] + b[1] * a[2], a[2] * b[2])
RSub(a, b) ==
    IF a[2] = 0 /\ b[2] = 0 THEN (IF a[1] = -b[1] THEN a ELSE RNaN)
    ELSE Rat(a[1] * b[2] - b[1] * a[2], a[2] * b[2])
RMul(a, b) == Rat(a[1] * b[1], a[2] * b[2])
RDiv(a, b) == Rat(a[1] * b[2], a[2] * b[1])
RNeg(a) == << -a[1], a[2] >>
RLt(a, b) ==
    /\ a # RNaN
    /\ b # RNaN
    /\ IF a[2] = 0 /\ b[2] = 0 THEN a[1] < b[1] ELSE a[1] * b[2] < b[1] * a[2]
RMin(a, b) == IF RLt(b, a) THEN b ELSE a
RMax(a, b) == IF RLt(a, b) THEN b ELSE a
RFloor(a) == a[1] \div a[2]
VZero == << RZero, RZero >>

\* floor of the square root of n >= 0, by bisection on lo <= root < hi
RECURSIVE ISqrtIn(_, _, _)
ISqrtIn(n, lo, hi) ==
    IF hi - lo <= 1 THEN lo
    ELSE LET mid == (lo + hi) \div 2
         IN  IF mid * mid <= n THEN ISqrtIn(n, mid, hi) ELSE ISqrtIn(n, lo, mid)
ISqrt(n) == ISqrtIn(n, 0, IF n < 46340 THEN n + 1 ELSE 46340)

\* x ** 0.5 for x >= 0: exact when x is the square of a rational, otherwise
\* rounded down to one decimal of the denominator
RSqrt(a) ==
    LET sn == ISqrt(a[1])
        sd == ISqrt(a[2])
    IN  IF sn * sn = a[1] /\ sd * sd = a[2] THEN Rat(sn, sd)
        ELSE Rat(ISqrt(a[1] * a[2] * 100), a[2] * 10)

(***************************************************************************)
(* GridBuffer: [w, h, c] with c[<<y, x>>] = <<vx, vy>>, 0-based indices    *)
(***************************************************************************)
GridIdx(w, h) == (0 .. h - 1) \X (0 .. w - 1)

\* create_vector_grid(width, height, default)
create_vector_grid(width, height, default) ==
    [w |-> width, h |-> height, c |-> [p \in GridIdx(width, height) |-> default]]

\* grid[y, x, :] = (ax, ay): an assignment where the code accumulates
AddCell_assign(grid, y, x, ax, ay) == [grid EXCEPT !.c[<<y, x>>] = << ax, ay >>]

\* grid[y, x, :] += (ax, ay)
AddCell(grid, y, x, ax, ay) ==
    [grid EXCEPT !.c[<<y, x>>] = << RAdd(@[1], ax), RAdd(@[2], ay) >>]

\* max(0.0, min(n - 1.0, float(v)))
ClampCoord(v, n) == RMax(RZero, RMin(RInt(n - 1), v))

\* the upper corner index without its clamp to the last row / column
UpperIdx_unclamped(i0, n) == i0 + 1

\* min(i0 + 1, n - 1): the upper corner index
UpperIdx(i0, n) == IF i0 + 1 < n - 1 THEN i0 + 1 ELSE n - 1

\* the weights w00, w01, w10, w11 of the four corners
BilinearWeights(wx, wy) ==
    << RMul(RSub(ROne, wx), RSub(ROne, wy)), RMul(wx, RSub(ROne, wy)),
       RMul(RSub(ROne, wx), wy), RMul(wx, wy) >>

\* add_vector_at_position: the four accumulations, in the code's order
AddWeighted(grid, x0, x1, y0, y1, w, vx, vy) ==
    AddCell(AddCell(AddCell(AddCell(grid, y0, x0, RMul(w[1], vx), RMul(w[1], vy)),
                            y0, x1, RMul(w[2], vx), RMul(w[2], vy)),
                    y1, x0, RMul(w[3], vx), RMul(w[3], vy)),
            y1, x1, RMul(w[4], vx), RMul(w[4], vy))

\* add_vector_at_position from the clamped position (x, y) on
AddClamped(grid, x, y, vx, vy) ==
    AddWeighted(grid, RFloor(x), UpperIdx(RFloor(x), grid.w),
                RFloor(y), UpperIdx(RFloor(y), grid.h),
                BilinearWeights(RSub(x, RInt(RFloor(x))), RSub(y, RInt(RFloor(y)))), vx, vy)

\* CPUVectorFieldCalculator.add_vector_at_position (splat)
cpu_add_vector_at_position(grid, px, py, vx, vy) ==
    AddClamped(grid, ClampCoord(px, grid.w), ClampCoord(py, grid.h), vx, vy)

\* create_tiny_vector without the clamp of the centre
cpu_create_tiny_vector_unclamped(grid, px, py, mag) ==
    cpu_add_vector_at_position(
        cpu_add_vector_at_position(
            cpu_add_vector_at_position(
                cpu_add_vector_at_position(grid, px, RSub(py, ROne), RZero, RNeg(mag)),
                RSub(px, ROne), py, RNeg(mag), RZero),
            RAdd(px, ROne), py, mag, RZero),
        px, RAdd(py, ROne), RZero, mag)

\* CPUVectorFieldCalculator.create_tiny_vector (splat_cross): four splats in
\* the loop order dy = -1, 0, 1 / dx = -1, 0, 1 with |dx| + |dy| = 1
cpu_create_tiny_vector(grid, px, py, mag) ==
    LET x == ClampCoord(px, grid.w)
        y == ClampCoord(py, grid.h)
        g1 == cpu_add_vector_at_position(grid, x, RSub(y, ROne), RZero, RNeg(mag))
        g2 == cpu_add_vector_at_position(g1, RSub(x, ROne), y, RNeg(mag), RZero)
        g3 == cpu_add_vector_at_position(g2, RAdd(x, ROne), y, mag, RZero)
    IN  cpu_add_vector_at_position(g3, x, RAdd(y, ROne), RZero, mag)

\* create_tiny_vectors_batch whose copy of the cross loop lacks the clamp of
\* the centre
RECURSIVE cpu_create_tiny_vectors_batch_unclamped(_, _)
cpu_create_tiny_vectors_batch_unclamped(grid, positions) ==
    IF positions = << >> THEN grid
    ELSE LET e == Head(positions)
             g1 == cpu_add_vector_at_position(grid, e[1], RSub(e[2], ROne), RZero, RNeg(e[3]))
             g2 == cpu_add_vector_at_position(g1, RSub(e[1], ROne), e[2], RNeg(e[3]), RZero)
             g3 == cpu_add_vector_at_position(g2, RAdd(e[1], ROne), e[2], e[3], RZero)
             g4 == cpu_add_vector_at_position(g3, e[1], RAdd(e[2], ROne), RZero, e[3])
         IN  cpu_create_tiny_vectors_batch_unclamped(g4, Tail(positions))

\* CPUVectorFieldCalculator.create_tiny_vectors_batch (splat_batch): its own
\* copy of the cross loop, applied per entry <<x, y, mag>> in list order
RECURSIVE cpu_create_tiny_vectors_batch(_, _)
cpu_create_tiny_vectors_batch(grid, positions) ==
    IF positions = << >> THEN grid
    ELSE LET e == Head(positions)
             x == ClampCoord(e[1], grid.w)
             y == ClampCoord(e[2], grid.h)
             mag == e[3]
             g1 == cpu_add_vector_at_position(grid, x, RSub(y, ROne), RZero, RNeg(mag))
             g2 == cpu_add_vector_at_position(g1, RSub(x, ROne), y, RNeg(mag), RZero)
             g3 == cpu_add_vector_at_position(g2, RAdd(x, ROne), y, mag, RZero)
             g4 == cpu_add_vector_at_position(g3, x, RAdd(y, ROne), RZero, mag)
         IN  cpu_create_tiny_vectors_batch(g4, Tail(positions))

\* fit_vector_at_position: the weighted sum of the four corner vectors
FitWeighted(grid, x0, x1, y0, y1, w) ==
    LET comp(k) ==
            RAdd(RAdd(RAdd(RMul(w[1], grid.c[<<y0, x0>>][k]), RMul(w[2], grid.c[<<y0, x1>>][k])),
                      RMul(w[3], grid.c[<<y1, x0>>][k])),
                 RMul(w[4], grid.c[<<y1, x1>>][k]))
    IN  << comp(1), comp(2) >>

\* fit_vector_at_position from the clamped position (x, y) on
FitClamped(grid, x, y) ==
    FitWeighted(grid, RFloor(x), UpperIdx(RFloor(x), grid.w),
                RFloor(y), UpperIdx(RFloor(y), grid.h),
                BilinearWeights(RSub(x, RInt(RFloor(x))), RSub(y, RInt(RFloor(y)))))

\* CPUVectorFieldCalculator.fit_vector_at_position (sample)
cpu_fit_vector_at_position(grid, px, py) ==
    FitClamped(grid, ClampCoord(px, grid.w), ClampCoord(py, grid.h))

\* fit_vectors_at_positions_batch that hands its results back last first
cpu_fit_vectors_batch_reversed(grid, positions) ==
    [i \in 1 .. Len(positions) |->
        cpu_fit_vector_at_position(grid, positions[Len(positions) + 1 - i][1],
                                   positions[Len(positions) + 1 - i][2])]

\* CPUVectorFieldCalculator.fit_vectors_at_positions_batch (sample_batch):
\* [(0.0, 0.0)] * len(positions) for an empty list, else the comprehension
cpu_fit_vectors_at_positions_batch(grid, positions) ==
    IF positions = << >> THEN [i \in 1 .. Len(positions) |-> VZero]
    ELSE [i \in 1 .. Len(positions) |->
             cpu_fit_vector_at_position(grid, positions[i][1], positions[i][2])]

\* sum_adjacent_vectors without the bounds test of the neighbours: an index
\* past either end wraps around to the other side
cpu_sum_adjacent_wrap(grid, x, y, self_weight, neighbor_weight) ==
    LET term(cx, cy, wt, k) == RMul(grid.c[<<cy % grid.h, cx % grid.w>>][k], wt)
        comp(k) ==
            RAdd(RAdd(RAdd(RAdd(term(x, y, self_weight, k),
                                term(x, y - 1, neighbor_weight, k)),
                           term(x, y + 1, neighbor_weight, k)),
                      term(x - 1, y, neighbor_weight, k)),
                 term(x + 1, y, neighbor_weight, k))
    IN  << comp(1), comp(2) >>

\* CPUVectorFieldCalculator.sum_adjacent_vectors, x and y integers
cpu_sum_adjacent_vectors(grid, x, y, self_weight, neighbor_weight) ==
    LET inside(cx, cy) == 0 <= cx /\ cx < grid.w /\ 0 <= cy /\ cy < grid.h
        term(cx, cy, wt, k) ==
            IF inside(cx, cy) THEN RMul(grid.c[<<cy, cx>>][k], wt) ELSE RZero
        comp(k) ==
            RAdd(RAdd(RAdd(RAdd(term(x, y, self_weight, k),
                                term(x, y - 1, neighbor_weight, k)),
                           term(x, y + 1, neighbor_weight, k)),
                      term(x - 1, y, neighbor_weight, k)),
                 term(x + 1, y, neighbor_weight, k))
    IN  << comp(1), comp(2) >>

\* np.pad(grid, ((1, 1), (1, 1), (0, 0)), mode='edge'): (h + 2) x (w + 2),
\* every border cell a copy of the nearest cell of the grid
EdgeIdx(i, n) == IF i < 0 THEN 0 ELSE IF i > n - 1 THEN n - 1 ELSE i
np_pad_edge(grid) ==
    [p \in (0 .. grid.h + 1) \X (0 .. grid.w + 1) |->
        grid.c[<< EdgeIdx(p[1] - 1, grid.h), EdgeIdx(p[2] - 1, grid.w) >>]]

\* np.pad with zeros in place of the edge values
np_pad_zero(grid) ==
    [p \in (0 .. grid.h + 1) \X (0 .. grid.w + 1) |->
        IF << p[1] - 1, p[2] - 1 >> \in GridIdx(grid.w, grid.h)
        THEN grid.c[<< p[1] - 1, p[2] - 1 >>] ELSE VZero]

\* the four shifted slices of the padded grid times neighbor_weight, summed in
\* the code's order, plus grid * self_weight: the value of cell [y, x]
DiffusedCell(grid, padded, y, x, self_weight, neighbor_weight) ==
    LET comp(k) ==
            RAdd(RAdd(RAdd(RAdd(RMul(padded[<<y + 2, x + 1>>][k], neighbor_weight),
                                RMul(padded[<<y, x + 1>>][k], neighbor_weight)),
                           RMul(padded[<<y + 1, x + 2>>][k], neighbor_weight)),
                      RMul(padded[<<y + 1, x>>][k], neighbor_weight)),
                 RMul(grid.c[<<y, x>>][k], self_weight))
    IN  << comp(1), comp(2) >>

\* diffuse that pads with zeros
cpu_update_grid_zero_padded(grid, self_weight, neighbor_weight) ==
    [grid EXCEPT !.c = [p \in GridIdx(grid.w, grid.h) |->
        DiffusedCell(grid, np_pad_zero(grid), p[1], p[2], self_weight, neighbor_weight)]]

\* diffuse as a sweep that updates the grid cell by cell, row by row, each
\* cell computed from the grid as updated so far
RECURSIVE SweepFrom(_, _, _, _)
SweepFrom(grid, n, self_weight, neighbor_weight) ==
    IF n >= grid.w * grid.h THEN grid
    ELSE SweepFrom([grid EXCEPT !.c[<< n \div grid.w, n % grid.w >>] =
                        DiffusedCell(grid, np_pad_edge(grid), n \div grid.w, n % grid.w,
                                     self_weight, neighbor_weight)],
                   n + 1, self_weight, neighbor_weight)
cpu_update_grid_sweep(grid, self_weight, neighbor_weight) ==
    SweepFrom(grid, 0, self_weight, neighbor_weight)

\* CPUVectorFieldCalculator.update_grid_with_adjacent_sum (diffuse): result is
\* computed from the padded old grid, then grid[:] = result. The weights are
\* the state manager's vector_self_weight and vector_neighbor_weight.
cpu_update_grid_with_adjacent_sum(grid, self_weight, neighbor_weight) ==
    [grid EXCEPT !.c = [p \in GridIdx(grid.w, grid.h) |->
        DiffusedCell(grid, np_pad_edge(grid), p[1], p[2], self_weight, neighbor_weight)]]


(***************************************************************************)
(* State                                                                   *)
(***************************************************************************)
VARIABLES
    current_device,     \* VectorFieldCalculator._current_device
    compute_device_cfg, \* state_manager["compute_device"], the config value
    gpu_calculator,     \* VectorFieldCalculator._gpu_calculator (the backend object)
    bus_log,            \* events handed to EventBus.publish by the latest operation
    last,               \* the latest operation: its arguments, pre-state and result
    heap,               \* the marker dicts ever created; a marker is its index here
    markers,            \* MarkerSystem.markers: list of markers (indices into heap)
    stored_markers,     \* state_manager["markers"]: [present, list]
    grid_buf,           \* the grid the caller hands to the marker system
    pc,                 \* position inside update_field_and_markers, "idle" outside
    tick,               \* the locals of the running (or latest) tick
    ticks,              \* ticks completed
    snapshot,           \* a list returned by get_markers, as its caller holds it
    gm,                 \* a GridManager with the state keys it records and one file
    event_bus,          \* an EventBus with the subscriptions made on it
    config_manager,     \* a ConfigManager: its options, the state keys, its file
    state_manager,      \* a StateManager and a snapshot its caller holds
    container,          \* a Container, the instances made and the resolving threads
    command             \* a Command plugin on its controller

dvars == << current_device, compute_device_cfg, gpu_calculator, bus_log, last >>
tvars == << heap, markers, stored_markers, grid_buf, pc, tick, ticks >>
\* the variables outside the dispatcher and the tick
xvars == << snapshot, gm, config_manager, event_bus, state_manager, container, command >>
vars == << dvars, tvars, xvars >>

(***************************************************************************)
(* Event bus (gravitas/core/events.py)                                     *)
(***************************************************************************)
max_recursion_depth == 10

NoDevice == "<absent>"
Ev(type, arg) == [type |-> type, arg |-> arg]
Logged(ev, delivered) == [type |-> ev.type, arg |-> ev.arg, delivered |-> delivered]

\* event types the dispatcher subscribed to in __init__
Subscribed == {"APP_INITIALIZED", "CONFIG_CHANGED"}

(***************************************************************************)
(* Accelerated backend (gravitas/compute/gpu_vector_field.py)              *)
(***************************************************************************)
\* what the OpenCL runtime does during _init_opencl
OpenCLOutcomes == {"ok", "no_platform", "queue_fail", "compile_fail"}

\* a constructor that lets the error of _compile_programs through to its
\* caller, which then keeps no backend object
GPUVectorFieldCalculator_init_reraise(outcome) ==
    [none |-> (outcome = "compile_fail"),
     initialized |-> (outcome = "ok"),
     ctx |-> IF outcome = "no_platform" THEN "none" ELSE "held",
     queue |-> IF outcome \in {"no_platform", "queue_fail"} THEN "none" ELSE "held",
     kernels |-> (outcome = "ok")]

\* GPUVectorFieldCalculator.__init__ + _init_opencl: never raises; the object
\* exists whatever happened, _initialized tells whether the probe succeeded
GPUVectorFieldCalculator_init(outcome) ==
    [none |-> FALSE,
     initialized |-> (outcome = "ok"),
     ctx |-> IF outcome = "no_platform" THEN "none" ELSE "held",
     queue |-> IF outcome \in {"no_platform", "queue_fail"} THEN "none" ELSE "held",
     kernels |-> (outcome = "ok")]

\* the event _init_opencl publishes; on failure its "error" entry is str(e),
\* here the name of the failure
InitOpenCLEvent(outcome) ==
    IF outcome = "ok" THEN Ev("GPU_COMPUTE_STARTED", "gpu")
    ELSE Ev("GPU_COMPUTE_ERROR", outcome)

\* GPUVectorFieldCalculator.cleanup: `del self._ctx` removes the attribute, so
\* a later `if self._ctx` raises AttributeError
gpu_cleanup(g) ==
    IF g.ctx = "deleted" THEN [gpu |-> g, raised |-> TRUE]
    ELSE [gpu |-> [g EXCEPT !.ctx = IF @ = "held" THEN "deleted" ELSE @,
                            !.queue = IF @ = "held" THEN "deleted" ELSE @,
                            !.kernels = FALSE,
                            !.initialized = FALSE],
          raised |-> FALSE]

NoGrid == create_vector_grid(0, 0, VZero)

Res(outcome, grid, value) == [outcome |-> outcome, grid |-> grid, value |-> value]

\* GPUVectorFieldCalculator.add_vector_at_position: returns silently when not
\* initialized; otherwise the same host-side code as the sequential backend
gpu_add_vector_at_position(g, grid, x, y, vx, vy) ==
    IF ~g.initialized THEN Res("skipped", grid, << >>)
    ELSE Res("ok", cpu_add_vector_at_position(grid, x, y, vx, vy), << >>)

\* GPUVectorFieldCalculator.create_tiny_vector: returns silently when not
\* initialized
gpu_create_tiny_vector(g, grid, x, y, mag) ==
    IF ~g.initialized THEN Res("skipped", grid, << >>)
    ELSE Res("ok", cpu_create_tiny_vector(grid, x, y, mag), << >>)

\* GPUVectorFieldCalculator.fit_vector_at_position
gpu_fit_vector_at_position(g, grid, x, y) ==
    IF ~g.initialized THEN Res("raised", grid, << >>)
    ELSE Res("ok", grid, << cpu_fit_vector_at_position(grid, x, y) >>)

\* The OpenCL kernels: their results are those of the sequential backend
\* (spec 4.2: same operation contract and numerical results)
kernel_create_tiny_vectors_batch(grid, positions) ==
    cpu_create_tiny_vectors_batch(grid, positions)
kernel_fit_vectors_at_positions_batch(grid, positions) ==
    cpu_fit_vectors_at_positions_batch(grid, positions)
kernel_sum_adjacent_vectors(grid, x, y, sw, nw) == cpu_sum_adjacent_vectors(grid, x, y, sw, nw)
kernel_update_grid_with_adjacent_sum(grid, sw, nw) ==
    cpu_update_grid_with_adjacent_sum(grid, sw, nw)

\* GPUVectorFieldCalculator.create_tiny_vectors_batch
gpu_create_tiny_vectors_batch(g, grid, positions) ==
    IF ~g.initialized THEN Res("raised", grid, << >>)
    ELSE IF positions = << >> THEN Res("ok", grid, << >>)
    ELSE Res("ok", kernel_create_tiny_vectors_batch(grid, positions), << >>)

\* GPUVectorFieldCalculator.fit_vectors_at_positions_batch
gpu_fit_vectors_at_positions_batch(g, grid, positions) ==
    IF ~g.initialized THEN Res("raised", grid, << >>)
    ELSE IF positions = << >> THEN Res("ok", grid, << >>)
    ELSE Res("ok", grid, kernel_fit_vectors_at_positions_batch(grid, positions))

\* GPUVectorFieldCalculator.sum_adjacent_vectors
gpu_sum_adjacent_vectors(g, grid, x, y, sw, nw) ==
    IF ~g.initialized THEN Res("raised", grid, << >>)
    ELSE Res("ok", grid, << kernel_sum_adjacent_vectors(grid, x, y, sw, nw) >>)

\* GPUVectorFieldCalculator.update_grid_with_adjacent_sum
gpu_update_grid_with_adjacent_sum(g, grid, sw, nw) ==
    IF ~g.initialized THEN Res("raised", grid, << >>)
    ELSE Res("ok", kernel_update_grid_with_adjacent_sum(grid, sw, nw), << >>)

ComputeOps ==
    {"sum_adjacent", "diffuse", "splat", "splat_cross", "splat_batch", "sample",
     "sample_batch"}

\* one compute entry point of the accelerated backend; a = [x, y, vx, vy, sw, nw]
gpu_compute(g, op, grid, a) ==
    CASE op = "sum_adjacent" ->
            gpu_sum_adjacent_vectors(g, grid, RFloor(a.x), RFloor(a.y), a.sw, a.nw)
      [] op = "diffuse" -> gpu_update_grid_with_adjacent_sum(g, grid, a.sw, a.nw)
      [] op = "splat" -> gpu_add_vector_at_position(g, grid, a.x, a.y, a.vx, a.vy)
      [] op = "splat_cross" -> gpu_create_tiny_vector(g, grid, a.x, a.y, a.vx)
      [] op = "splat_batch" ->
            gpu_create_tiny_vectors_batch(g, grid, << <<a.x, a.y, a.vx>>, <<a.y, a.x, a.vy>> >>)
      [] op = "sample" -> gpu_fit_vector_at_position(g, grid, a.x, a.y)
      [] op = "sample_batch" ->
            gpu_fit_vectors_at_positions_batch(g, grid, << <<a.x, a.y>>, <<a.y, a.x>> >>)

\* the same entry point of the sequential backend
cpu_compute(op, grid, a) ==
    CASE op = "sum_adjacent" ->
            Res("ok", grid,
                << cpu_sum_adjacent_vectors(grid, RFloor(a.x), RFloor(a.y), a.sw, a.nw) >>)
      [] op = "diffuse" ->
            Res("ok", cpu_update_grid_with_adjacent_sum(grid, a.sw, a.nw), << >>)
      [] op = "splat" ->
            Res("ok", cpu_add_vector_at_position(grid, a.x, a.y, a.vx, a.vy), << >>)
      [] op = "splat_cross" -> Res("ok", cpu_create_tiny_vector(grid, a.x, a.y, a.vx), << >>)
      [] op = "splat_batch" ->
            Res("ok", cpu_create_tiny_vectors_batch(
                          grid, << <<a.x, a.y, a.vx>>, <<a.y, a.x, a.vy>> >>), << >>)
      [] op = "sample" -> Res("ok", grid, << cpu_fit_vector_at_position(grid, a.x, a.y) >>)
      [] op = "sample_batch" ->
            Res("ok", grid,
                cpu_fit_vectors_at_positions_batch(grid, << <<a.x, a.y>>, <<a.y, a.x>> >>))

(***************************************************************************)
(* Backend dispatcher (gravitas/compute/vector_field.py)                   *)
(* d = [dev, cfg, gpu, log] is the dispatcher with the collaborators it    *)
(* changes; depth is EventBus._recursion_depth at the time of the call.    *)
(***************************************************************************)
RECURSIVE set_device(_, _, _)
RECURSIVE handle(_, _, _)
RECURSIVE publish(_, _, _)

\* EventBus.publish
publish(d, ev, depth) ==
    IF depth >= max_recursion_depth
    THEN [d EXCEPT !.log = Append(@, Logged(ev, FALSE))]
    ELSE LET d1 == [d EXCEPT !.log = Append(@, Logged(ev, TRUE))]
             d2 == IF ev.type \in Subscribed THEN handle(d1, ev, depth + 1) ELSE d1
         IN  IF ev.type \notin {"ASYNC_EVENT_PROCESSED", "APP_INITIALIZED"}
             THEN publish(d2, Ev("ASYNC_EVENT_PROCESSED", ev.type), depth + 1)
             ELSE d2

\* ConfigManager.set("compute_device", value): a string passes validation
\* whatever it says; the change event is published when the value changed
config_set(d, value, depth) ==
    LET d1 == [d EXCEPT !.cfg = value]
    IN  IF d.cfg # value THEN publish(d1, Ev("CONFIG_CHANGED", value), depth) ELSE d1

\* set_device that switches the device and the configuration but publishes no
\* notification
set_device_silent(d, device, depth) ==
    IF device \notin {"cpu", "gpu"} THEN [d |-> d, ret |-> FALSE]
    ELSE IF device = "gpu" /\ d.gpu.none THEN [d |-> d, ret |-> FALSE]
    ELSE [d |-> config_set([d EXCEPT !.dev = device], device, depth), ret |-> TRUE]

\* set_device without the check of the device name
set_device_any_kind(d, device, depth) ==
    IF device = "gpu" /\ d.gpu.none THEN [d |-> d, ret |-> FALSE]
    ELSE LET d1 == [d EXCEPT !.dev = device]
             d2 == config_set(d1, device, depth)
         IN  [d |-> publish(d2, Ev("APP_INITIALIZED", device), depth), ret |-> TRUE]

\* set_device that probes the accelerated backend again when asked for "gpu"
set_device_reprobe(d, device, depth) ==
    IF device \notin {"cpu", "gpu"} THEN [d |-> d, ret |-> FALSE]
    ELSE IF device = "gpu" /\ d.gpu.none THEN [d |-> d, ret |-> FALSE]
    ELSE LET d1 == [d EXCEPT !.dev = device,
                             !.gpu.initialized = IF device = "gpu" THEN TRUE ELSE @]
             d2 == config_set(d1, device, depth)
         IN  [d |-> publish(d2, Ev("APP_INITIALIZED", device), depth), ret |-> TRUE]

\* VectorFieldCalculator.set_device
set_device(d, device, depth) ==
    IF device \notin {"cpu", "gpu"} THEN [d |-> d, ret |-> FALSE]
    ELSE IF device = "gpu" /\ d.gpu.none THEN [d |-> d, ret |-> FALSE]
    ELSE LET d1 == [d EXCEPT !.dev = device]
             d2 == config_set(d1, device, depth)
         IN  [d |-> publish(d2, Ev("APP_INITIALIZED", device), depth), ret |-> TRUE]

\* VectorFieldCalculator.handle
handle(d, ev, depth) ==
    IF ev.type = "APP_INITIALIZED"
    THEN IF ev.arg # NoDevice THEN set_device(d, ev.arg, depth).d ELSE d
    ELSE IF ev.type = "CONFIG_CHANGED"
    THEN IF ev.arg # "" /\ ev.arg # d.dev
         THEN IF ev.arg = "gpu" /\ d.gpu.none THEN d ELSE [d EXCEPT !.dev = ev.arg]
         ELSE d
    ELSE d

\* `self._gpu_calculator if self._current_device == "gpu" and
\*  self._gpu_calculator else self._cpu_calculator`
route(d) == IF d.dev = "gpu" /\ ~d.gpu.none THEN "gpu" ELSE "cpu"

\* a compute call on the dispatcher
dispatch_compute(d, op, grid, a) ==
    IF route(d) = "gpu" THEN gpu_compute(d.gpu, op, grid, a) ELSE cpu_compute(op, grid, a)

\* VectorFieldCalculator.cleanup
dispatcher_cleanup(d) ==
    IF ~d.gpu.none
    THEN LET r == gpu_cleanup(d.gpu) IN [d |-> [d EXCEPT !.gpu = r.gpu], raised |-> r.raised]
    ELSE [d |-> d, raised |-> FALSE]

\* VectorFieldCalculator.__init__: the backend is constructed (its probe
\* published one event), the device is read from the configuration
VectorFieldCalculator_init(outcome, cfg) ==
    LET g == GPUVectorFieldCalculator_init(outcome)
        d0 == [dev |-> cfg, cfg |-> cfg, gpu |-> g, log |-> << >>]
    IN  publish(d0, InitOpenCLEvent(outcome), 0)


\* VectorFieldCalculator.create_tiny_vectors_batch (both backends have the
\* batch method, so the hasattr fallback is never taken)
vc_create_tiny_vectors_batch(d, g, positions) ==
    IF route(d) = "gpu" THEN gpu_create_tiny_vectors_batch(d.gpu, g, positions)
    ELSE Res("ok", IF positions = << >> THEN g ELSE cpu_create_tiny_vectors_batch(g, positions),
             << >>)

\* VectorFieldCalculator.fit_vectors_at_positions_batch
vc_fit_vectors_at_positions_batch(d, g, positions) ==
    IF route(d) = "gpu" THEN gpu_fit_vectors_at_positions_batch(d.gpu, g, positions)
    ELSE Res("ok", g, cpu_fit_vectors_at_positions_batch(g, positions))

(***************************************************************************)
(* Marker system (plugins/marker_system.py)                                *)
(***************************************************************************)
\* state_manager.get("cell_size", 1.0); the configuration registers 1.0
cell_size == ROne

\* MarkerSystem.add_marker: the dict it builds
new_marker(x, y, mag, vx, vy) == [x |-> x, y |-> y, mag |-> mag, vx |-> vx, vy |-> vy]

\* MarkerSystem._clamp_velocity
clamp_velocity(vx, vy, cs) ==
    LET speed == RSqrt(RAdd(RMul(vx, vx), RMul(vy, vy)))
    IN  IF RLt(cs, speed)
        THEN << RMul(RDiv(vx, speed), cs), RMul(RDiv(vy, speed), cs) >>
        ELSE << vx, vy >>

\* _update_position without the clamp
update_position_unclamped(x, y, vx, vy, dt, w, h) ==
    << RAdd(x, RMul(vx, dt)), RAdd(y, RMul(vy, dt)) >>

\* MarkerSystem._update_position
update_position(x, y, vx, vy, dt, w, h) ==
    << ClampCoord(RAdd(x, RMul(vx, dt)), w), ClampCoord(RAdd(y, RMul(vy, dt)), h) >>

\* _apply_physics that uses the default gravity 0.01 of update_markers and not
\* the argument
apply_physics_default_gravity(vx, vy, gravity, speed_factor, dt) ==
    << RMul(vx, speed_factor), RMul(RAdd(vy, RMul(<< 1, 100 >>, dt)), speed_factor) >>

\* MarkerSystem._apply_physics
apply_physics(vx, vy, gravity, speed_factor, dt) ==
    << RMul(vx, speed_factor), RMul(RAdd(vy, RMul(gravity, dt)), speed_factor) >>

\* _update_single_marker that applies gravity and damping before it integrates
\* the position
update_single_marker_physics_first(m, fitted_vector, dt, gravity, speed_factor, cs, w, h) ==
    LET vx1 == RAdd(m.vx, RDiv(fitted_vector[1], m.mag))
        vy1 == RAdd(m.vy, RDiv(fitted_vector[2], m.mag))
        v2 == clamp_velocity(vx1, vy1, cs)
        v3 == apply_physics(v2[1], v2[2], gravity, speed_factor, dt)
        p == update_position(m.x, m.y, v3[1], v3[2], dt, w, h)
    IN  [m EXCEPT !.x = p[1], !.y = p[2], !.vx = v3[1], !.vy = v3[2]]

\* MarkerSystem._update_single_marker. With mag = 0 the division of the numpy
\* scalar yields inf or nan (a warning, no exception), which the clamp of
\* _update_position maps into the grid.
update_single_marker(m, fitted_vector, dt, gravity, speed_factor, cs, w, h) ==
    LET vx1 == RAdd(m.vx, RDiv(fitted_vector[1], m.mag))
        vy1 == RAdd(m.vy, RDiv(fitted_vector[2], m.mag))
        v2 == clamp_velocity(vx1, vy1, cs)
        p == update_position(m.x, m.y, v2[1], v2[2], dt, w, h)
        v3 == apply_physics(v2[1], v2[2], gravity, speed_factor, dt)
    IN  [m EXCEPT !.x = p[1], !.y = p[2], !.vx = v3[1], !.vy = v3[2]]

\* batch_create_tiny_vectors_from_markers: [(m["x"], m["y"], m["mag"]) ...]
tiny_vector_positions(hp, ms) ==
    [i \in 1 .. Len(ms) |-> << hp[ms[i]].x, hp[ms[i]].y, hp[ms[i]].mag >>]

\* MarkerSystem._collect_marker_positions
collect_marker_positions(hp, ms) == [i \in 1 .. Len(ms) |-> << hp[ms[i]].x, hp[ms[i]].y >>]

RECURSIVE Reversed(_)
Reversed(list) == IF list = << >> THEN << >> ELSE Append(Reversed(Tail(list)), Head(list))

\* _sync_markers_from_state that takes the stored list in the opposite order
sync_markers_from_state_reversed(ms, stored) ==
    IF stored.present THEN Reversed(stored.list) ELSE ms

\* MarkerSystem._sync_markers_from_state: the list is taken from the state
\* manager whenever the key is there
sync_markers_from_state(ms, stored) == IF stored.present THEN stored.list ELSE ms

\* MarkerSystem._sync_to_state_manager
sync_to_state_manager(ms) == [present |-> TRUE, list |-> ms]

\* a loop that stops after its first entry
seed_phase_done_first(seeded, tiny) == seeded >= 1 \/ seeded = Len(tiny)

\* the loop of create_tiny_vectors_batch has gone over every entry
seed_phase_done(seeded, tiny) == seeded = Len(tiny)

\* the comprehension of fit_vectors_at_positions_batch has gone over every
\* position
sample_phase_done(fitted, positions) == Len(fitted) = Len(positions)

\* the loop of update_markers has gone over every marker
update_phase_done(new_markers, ms) == Len(new_markers) = Len(ms)

IdleTick ==
    [dt |-> RZero, gravity |-> RZero, speed_factor |-> RZero, tiny |-> << >>, seeded |-> 0,
     positions |-> << >>, fitted |-> << >>, new_markers |-> << >>,
     start_markers |-> << >>, start_stored |-> [present |-> FALSE, list |-> << >>],
     start_heap |-> << >>, start_grid |-> NoGrid]

(***************************************************************************)
(* Inputs                                                                  *)
(***************************************************************************)
DeviceArgs == {"cpu", "gpu", "tpu"}
\* the strings handed to ConfigManager.set for the device key: every string
\* passes _validate_value, the empty one too
ConfigValues == DeviceArgs \cup {""}
Half == << 1, 2 >>
Quarter == << 1, 4 >>
ZeroGrid2 == create_vector_grid(2, 2, VZero)
MixedGrid2 ==
    [w |-> 2, h |-> 2,
     c |-> [p \in GridIdx(2, 2) |-> << RInt(p[1] + 1), RInt(2 * p[2] - 1) >>]]
TestGrids == {ZeroGrid2, MixedGrid2}
CallArgs ==
    {[x |-> Half, y |-> RZero, vx |-> ROne, vy |-> RInt(2), sw |-> RZero, nw |-> Quarter],
     [x |-> RInt(3), y |-> RInt(-1), vx |-> ROne, vy |-> RInt(2), sw |-> Half, nw |-> Quarter]}
NoArgs == [x |-> RZero, y |-> RZero, vx |-> RZero, vy |-> RZero, sw |-> RZero, nw |-> RZero]

(***************************************************************************)
(* Operations of the dispatcher specification                              *)
(***************************************************************************)
D == [dev |-> current_device, cfg |-> compute_device_cfg, gpu |-> gpu_calculator,
      log |-> << >>]

Called(op, target, arg, a, ret, res, grid) ==
    [op |-> op, target |-> target, arg |-> arg, a |-> a, ret |-> ret,
     outcome |-> res.outcome, value |-> res.value,
     grid_in |-> grid, grid_out |-> res.grid,
     pre_dev |-> current_device, pre_cfg |-> compute_device_cfg,
     pre_init |-> gpu_calculator.initialized]

Install(d) ==
    /\ current_device' = d.dev
    /\ compute_device_cfg' = d.cfg
    /\ gpu_calculator' = d.gpu
    /\ bus_log' = d.log

OkRes == Res("ok", NoGrid, << >>)

\* the record of a compute call: it returned unless the backend raised
CalledCompute(op, target, arg, a, res, grid) ==
    Called(op, target, arg, a, res.outcome # "raised", res, grid)

\* a caller invokes vector_calculator.set_device(device)
CallSetDevice(device) ==
    LET r == set_device(D, device, 0)
    IN  /\ Install(r.d)
        /\ last' = Called("set_device", "dispatcher", device, NoArgs, r.ret, OkRes, NoGrid)

\* some component calls config_manager.set("compute_device", value)
ConfigSetDevice(value) ==
    LET d == config_set(D, value, 0)
    IN  /\ Install(d)
        /\ last' = Called("config_set", "config", value, NoArgs, TRUE, OkRes, NoGrid)

\* some component publishes APP_INITIALIZED, with or without a "device" entry
PublishAppInitialized(device) ==
    LET d == publish(D, Ev("APP_INITIALIZED", device), 0)
    IN  /\ Install(d)
        /\ last' = Called("app_initialized", "bus", device, NoArgs, TRUE, OkRes, NoGrid)

\* vector_calculator.cleanup()
CallCleanup ==
    LET r == dispatcher_cleanup(D)
    IN  /\ Install(r.d)
        /\ last' = Called("cleanup", "dispatcher", "", NoArgs, ~r.raised,
                          Res(IF r.raised THEN "raised" ELSE "ok", NoGrid, << >>), NoGrid)

\* a compute call on the dispatcher
CallCompute(op, grid, a) ==
    /\ Install(D)
    /\ last' = CalledCompute(op, "dispatcher", route(D), a, dispatch_compute(D, op, grid, a), grid)

\* a compute call made on the accelerated backend object itself
CallGpuCompute(op, grid, a) ==
    /\ Install(D)
    /\ last' = CalledCompute(op, "gpu", "gpu", a, gpu_compute(gpu_calculator, op, grid, a), grid)

DispatcherInit ==
    /\ \E outcome \in OpenCLOutcomes, cfg \in DeviceArgs :
          LET d == VectorFieldCalculator_init(outcome, cfg)
          IN  /\ current_device = d.dev
              /\ compute_device_cfg = d.cfg
              /\ gpu_calculator = d.gpu
              /\ bus_log = d.log
              /\ last = [op |-> "init", target |-> "dispatcher", arg |-> outcome,
                         a |-> NoArgs, ret |-> TRUE, outcome |-> "ok", value |-> << >>,
                         grid_in |-> NoGrid, grid_out |-> NoGrid,
                         pre_dev |-> d.dev, pre_cfg |-> d.cfg, pre_init |-> d.gpu.initialized]

\* MarkerSystem.__init__ on a state manager that holds no "markers" yet
MarkerSystemInit(g) ==
    /\ heap = << >>
    /\ markers = << >>
    /\ stored_markers = [present |-> FALSE, list |-> << >>]
    /\ grid_buf = g
    /\ pc = "idle"
    /\ tick = IdleTick
    /\ ticks = 0

\* no list has been handed out by get_markers
NoSnapshot == [taken |-> FALSE, list |-> << >>, seen |-> << >>, ticks |-> 0, touched |-> FALSE]

(***************************************************************************)
(* GridManager (gravitas/core/app.py)                                      *)
(***************************************************************************)
\* a numpy array: its shape and one value per index of its first two axes
BufCells(shape) ==
    IF Len(shape) = 1 THEN { << i >> : i \in 0 .. shape[1] - 1 }
    ELSE (0 .. shape[1] - 1) \X (0 .. shape[2] - 1)
UniformBuf(shape, v) == [kind |-> "array", shape |-> shape, cells |-> [p \in BufCells(shape) |-> v]]
NoBuf == [kind |-> "none", shape |-> << >>, cells |-> << >>]
\* a file np.load cannot read
CorruptFile == [kind |-> "corrupt", shape |-> << >>, cells |-> << >>]

GmDone(g, op, arg, ret, log) == [g EXCEPT !.last = [op |-> op, arg |-> arg, ret |-> ret], !.log = log]

\* GridManager.__init__: no grid, the recorded size is 640 x 480
GridManager_init ==
    [grid |-> NoBuf, width |-> 640, height |-> 480, updated |-> FALSE, file |-> NoBuf,
     log |-> << >>, last |-> [op |-> "init", arg |-> NoBuf, ret |-> "ok"]]

\* GridManager.init_grid(width, height)
init_grid(g, width, height) ==
    GmDone([g EXCEPT !.grid = UniformBuf(<< height, width, 2 >>, 0),
                     !.width = width, !.height = height, !.updated = TRUE],
           "init_grid", NoBuf, "ok", << "GRID_UPDATED" >>)

\* GridManager.update_grid({(y, x): v}); shape[1] of a one-dimensional array
\* raises IndexError
update_grid(g, y, x, v) ==
    IF g.grid.kind = "none" THEN GmDone(g, "update_grid", NoBuf, "ok", << >>)
    ELSE IF 0 <= y /\ y < g.grid.shape[1]
         THEN IF Len(g.grid.shape) < 2 THEN GmDone(g, "update_grid", NoBuf, "raised", << >>)
              ELSE IF 0 <= x /\ x < g.grid.shape[2]
                   THEN GmDone([g EXCEPT !.grid.cells[<< y, x >>] = v, !.updated = TRUE],
                               "update_grid", NoBuf, "ok", << "GRID_UPDATED" >>)
                   ELSE GmDone(g, "update_grid", NoBuf, "ok", << >>)
         ELSE GmDone(g, "update_grid", NoBuf, "ok", << >>)

\* GridManager.clear_grid
clear_grid(g) ==
    IF g.grid.kind = "none" THEN GmDone(g, "clear_grid", NoBuf, "ok", << >>)
    ELSE GmDone([g EXCEPT !.grid = UniformBuf(g.grid.shape, 0), !.updated = TRUE],
                "clear_grid", NoBuf, "ok", << "GRID_CLEARED" >>)

\* load_grid without the comparison of the shapes
load_grid_unchecked(g) ==
    IF g.file.kind # "array" THEN GmDone(g, "load_grid", g.file, FALSE, << >>)
    ELSE IF Len(g.file.shape) < 2
         THEN GmDone([g EXCEPT !.grid = g.file], "load_grid", g.file, FALSE, << >>)
         ELSE GmDone([g EXCEPT !.grid = g.file, !.width = g.file.shape[2],
                               !.height = g.file.shape[1], !.updated = TRUE],
                     "load_grid", g.file, TRUE, << "GRID_LOADED" >>)

\* GridManager.load_grid(file_path): a missing or unreadable file and a shape
\* other than the grid's return False; the grid is replaced before the new
\* size is read from the shape, where a one-dimensional array raises
\* IndexError, which the handler turns into False
load_grid(g) ==
    IF g.file.kind # "array" THEN GmDone(g, "load_grid", g.file, FALSE, << >>)
    ELSE IF g.grid.kind # "none" /\ g.file.shape # g.grid.shape
         THEN GmDone(g, "load_grid", g.file, FALSE, << >>)
         ELSE IF Len(g.file.shape) < 2
              THEN GmDone([g EXCEPT !.grid = g.file], "load_grid", g.file, FALSE, << >>)
              ELSE GmDone([g EXCEPT !.grid = g.file, !.width = g.file.shape[2],
                                    !.height = g.file.shape[1], !.updated = TRUE],
                          "load_grid", g.file, TRUE, << "GRID_LOADED" >>)

\* GridManager.save_grid(file_path)
save_grid(g) ==
    IF g.grid.kind = "none" THEN GmDone(g, "save_grid", NoBuf, FALSE, << >>)
    ELSE GmDone([g EXCEPT !.file = g.grid], "save_grid", NoBuf, TRUE, << "GRID_SAVED" >>)

(***************************************************************************)
(* ConfigManager (gravitas/core/config.py)                                 *)
(***************************************************************************)
\* Python values: a type tag, the number and the text. A bool is an int:
\* True is 1 and False is 0.
Num(n) == [t |-> "number", n |-> n, s |-> ""]
Bool(b) == [t |-> "bool", n |-> IF b THEN 1 ELSE 0, s |-> ""]
Str(x) == [t |-> "str", n |-> 0, s |-> x]
PyNone == [t |-> "none", n |-> 0, s |-> ""]
IsNumber(val) == val.t \in {"number", "bool"}
NumberOf(val) == val.n
\* a == b
PyEq(a, b) == IF IsNumber(a) /\ IsNumber(b) THEN NumberOf(a) = NumberOf(b) ELSE a = b

CfgKeys == {"target_fps", "compute_device", "dyn"}
NoLimit == PyNone
NoOption == [registered |-> FALSE, type |-> "", min_value |-> NoLimit, max_value |-> NoLimit,
             default |-> PyNone]
ConfigOption(default, type, min_value, max_value) ==
    [registered |-> TRUE, type |-> type, min_value |-> min_value, max_value |-> max_value,
     default |-> default]

CfgDone(c, op, key, value, ret, log) ==
    [c EXCEPT !.last = [op |-> op, key |-> key, value |-> value, ret |-> ret], !.log = log]

\* ConfigManager.register_option: the metadata of a known option is replaced,
\* a new option gets its default, which is stored in the state manager when
\* the key is not there
register_option(c, key, default, type, min_value, max_value) ==
    [c EXCEPT !.options[key] =
                 IF @.registered THEN [@ EXCEPT !.type = type, !.min_value = min_value,
                                                !.max_value = max_value]
                 ELSE ConfigOption(default, type, min_value, max_value),
              !.state[key] = IF @ = PyNone THEN default ELSE @]

\* ConfigManager._validate_value
validate_value(value, option) ==
    CASE option.type = "boolean" -> value.t = "bool"
      [] option.type = "number" ->
            /\ IsNumber(value)
            /\ ~(option.min_value # NoLimit /\ NumberOf(value) < NumberOf(option.min_value))
            /\ ~(option.max_value # NoLimit /\ NumberOf(value) > NumberOf(option.max_value))
      [] option.type = "array" -> value.t = "list"
      [] option.type = "object" -> value.t = "dict"
      [] OTHER -> value.t = "str"

\* ConfigManager.get(key): state_manager.get(key, option.value)
config_get(c, key) ==
    IF c.state[key] # PyNone THEN c.state[key]
    ELSE IF c.options[key].registered THEN c.options[key].default ELSE PyNone

\* the validated part of ConfigManager.set: store, publish CONFIG_CHANGED when
\* the value changed, save the file
config_store(c, key, value) ==
    CfgDone([c EXCEPT !.state[key] = value, !.file = [c.state EXCEPT ![key] = value]],
            "set", key, value, TRUE,
            IF PyEq(config_get(c, key), value) THEN << >>
            ELSE << [type |-> "CONFIG_CHANGED", key |-> key, old_value |-> config_get(c, key),
                     new_value |-> value] >>)

\* set that registers an unknown key only after the value has been validated
\* as a string
config_set_validate_first(c0, key, value) ==
    IF c0.options[key].registered
    THEN IF validate_value(value, c0.options[key])
         THEN config_store(c0, key, value)
         ELSE CfgDone(c0, "set", key, value, FALSE, << >>)
    ELSE IF value.t = "str"
         THEN config_store(register_option(c0, key, value, "string", NoLimit, NoLimit), key, value)
         ELSE CfgDone(c0, "set", key, value, FALSE, << >>)

\* the part of ConfigManager.set after the dynamic registration
config_set_registered(c, key, value) ==
    IF validate_value(value, c.options[key])
    THEN config_store(c, key, value)
    ELSE CfgDone(c, "set", key, value, FALSE, << >>)

\* ConfigManager.set(key, value): an unknown key is registered first, as a
\* string option whose default is the value
ConfigManager_set(c0, key, value) ==
    config_set_registered(
        IF c0.options[key].registered THEN c0
        ELSE register_option(c0, key, value, "string", NoLimit, NoLimit),
        key, value)

\* ConfigManager.reset_to_default(key)
reset_to_default(c, key) ==
    IF c.options[key].registered
    THEN CfgDone([c EXCEPT !.state[key] = c.options[key].default], "reset", key, PyNone, TRUE,
                 << [type |-> "CONFIG_CHANGED", key |-> key, old_value |-> PyNone,
                     new_value |-> PyNone] >>)
    ELSE CfgDone(c, "reset", key, PyNone, TRUE, << >>)

\* ConfigManager.__init__: the options of _init_default_config (two of them)
ConfigManager_init ==
    [options |-> [k \in CfgKeys |->
                     CASE k = "target_fps" -> ConfigOption(Num(60), "number", Num(1), Num(240))
                       [] k = "compute_device" -> ConfigOption(Str("cpu"), "string", NoLimit, NoLimit)
                       [] OTHER -> NoOption],
     state |-> [k \in CfgKeys |->
                   CASE k = "target_fps" -> Num(60)
                     [] k = "compute_device" -> Str("cpu")
                     [] OTHER -> PyNone],
     file |-> [k \in CfgKeys |-> PyNone],
     log |-> << >>,
     last |-> [op |-> "init", key |-> "", value |-> PyNone, ret |-> TRUE]]

(***************************************************************************)
(* EventBus with any subscribers (gravitas/core/events.py)                 *)
(* b = [handlers, filters, depth, max_depth, async_enabled, calls, dropped]*)
(* calls lists the handler invocations <<handler, event type, depth>> and  *)
(* dropped the events stopped by the depth check, since the latest         *)
(* top-level call. A result is [b, raised].                                *)
(***************************************************************************)
BusTypes == {"GRID_UPDATED", "GPU_COMPUTE_ERROR", "ASYNC_EVENT_PROCESSED"}
\* the subscribers: one that returns, one that raises, one that publishes an
\* event of the type it was given from inside handle
BusHandlers == {"returns", "raises", "republishes"}
\* EventFilter.filter returning True or False
BusFilters == {"accept", "reject"}

Returned(b) == [b |-> b, raised |-> FALSE]
Raised(b) == [b |-> b, raised |-> TRUE]

\* EventBus.__init__
EventBus_init ==
    [handlers |-> [t \in BusTypes |-> << >>], filters |-> [t \in BusTypes |-> << >>],
     depth |-> 0, max_depth |-> max_recursion_depth, async_enabled |-> TRUE,
     calls |-> {}, invoked |-> [c \in BusHandlers \X BusTypes |-> 0], dropped |-> 0,
     given |-> [c \in BusHandlers \X BusTypes |-> "none"],
     last |-> [op |-> "init", type |-> "", raised |-> FALSE]]

InSeq(x, list) == \E i \in 1 .. Len(list) : list[i] = x
RECURSIVE Without(_, _)
Without(list, x) ==
    IF list = << >> THEN << >>
    ELSE IF Head(list) = x THEN Tail(list) ELSE << Head(list) >> \o Without(Tail(list), x)

\* EventBus.subscribe(event_type, handler, filter); filter "none" is None
subscribe(b, type, h, filter) ==
    IF InSeq(h, b.handlers[type]) THEN b
    ELSE [b EXCEPT !.handlers[type] = Append(@, h),
                   !.filters[type] = IF filter = "none" THEN @ ELSE Append(@, filter)]

\* EventBus.unsubscribe(event_type, handler)
unsubscribe(b, type, h) ==
    IF ~InSeq(h, b.handlers[type]) THEN b
    ELSE [b EXCEPT !.handlers[type] = Without(@, h),
                   !.filters[type] = IF Without(b.handlers[type], h) = << >> THEN << >> ELSE @]

\* EventBus.clear
bus_clear(b) ==
    [b EXCEPT !.handlers = [t \in BusTypes |-> << >>], !.filters = [t \in BusTypes |-> << >>]]

RECURSIVE bus_publish(_, _)
RECURSIVE bus_publish_depth_exceeded(_, _)
RECURSIVE call_handlers(_, _, _)
RECURSIVE call_handlers_unguarded(_, _, _)

\* the bus with one more call noted: calls holds which handler was given which
\* event type with how many publishes in progress, invoked counts the calls
called(b, type, h) ==
    [b EXCEPT !.calls = @ \cup { << h, type, b.depth >> }, !.invoked[<< h, type >>] = @ + 1]

\* handler.handle(event) of the three subscribers
handler_handle(b, type, h) ==
    IF h = "raises" THEN Raised(called(b, type, h))
    ELSE IF h = "republishes" THEN bus_publish(called(b, type, h), type)
         ELSE Returned(called(b, type, h))

\* EventBus._publish_error_event: whatever the publish raises is swallowed
publish_error_event(b) == Returned(bus_publish(b, "GPU_COMPUTE_ERROR").b)

\* the except clause around handler.handle, then the handlers that follow
handle_caught(r, type, hs) ==
    IF r.raised THEN call_handlers(publish_error_event(r.b).b, type, hs)
    ELSE call_handlers(r.b, type, hs)

\* the loop over the handlers of publish without its except clause: the first
\* exception ends the loop
unguarded_rest(r, type, hs) ==
    IF r.raised THEN r ELSE call_handlers_unguarded(r.b, type, hs)
call_handlers_unguarded(b, type, hs) ==
    IF hs = << >> THEN Returned(b)
    ELSE unguarded_rest(handler_handle(b, type, Head(hs)), type, Tail(hs))

\* the loop over the handlers of publish: for handler in handlers: try ...
call_handlers(b, type, hs) ==
    IF hs = << >> THEN Returned(b)
    ELSE handle_caught(handler_handle(b, type, Head(hs)), type, Tail(hs))

\* finally: self._recursion_depth -= 1
leave_publish(r) == [r EXCEPT !.b.depth = @ - 1]

\* publish after the loop: the ASYNC_EVENT_PROCESSED event, then the finally
after_handlers(r, type) ==
    IF r.raised THEN leave_publish(r)
    ELSE IF r.b.async_enabled /\ type \notin {"ASYNC_EVENT_PROCESSED", "APP_INITIALIZED"}
         THEN leave_publish(bus_publish(r.b, "ASYNC_EVENT_PROCESSED"))
         ELSE leave_publish(r)

\* the filters of the event type let the event pass
FiltersPass(b, type) == ~InSeq("reject", b.filters[type])

\* publish with the depth check of publish_async: one publish more gets through
bus_publish_depth_exceeded(b, type) ==
    IF b.depth > b.max_depth THEN Returned([b EXCEPT !.dropped = @ + 1])
    ELSE IF ~FiltersPass(b, type) THEN Returned(b)
    ELSE after_handlers(call_handlers([b EXCEPT !.depth = @ + 1], type, b.handlers[type]), type)

\* EventBus.publish(event)
bus_publish(b, type) ==
    IF b.depth >= b.max_depth THEN Returned([b EXCEPT !.dropped = @ + 1])
    ELSE IF ~FiltersPass(b, type) THEN Returned(b)
    ELSE after_handlers(call_handlers([b EXCEPT !.depth = @ + 1], type, b.handlers[type]), type)

\* the keys and the values of the state manager specification
StateKeys == { "key1", "key2" }
StateValues == { 1, 2 }
\* a dict over StateKeys: 0 where the key is absent
Absent == 0
EmptyDict == [k \in StateKeys |-> Absent]
\* the key of the StateChange recorded by clear and restore_snapshot
AllKeys == "*"
\* the keys in the order the loops over a dict take them
KeyOrder == << "key1", "key2" >>
\* the listeners: one that returns, one that raises, one that removes itself
\* with remove_listener when it is called
StateListeners == { "returns", "raises", "once" }
NoListeners == [k \in StateKeys |-> << >>]

\* no snapshot taken yet. state is the dict under snapshot["state"], shared
\* tells that it is the very dict object the manager holds as _state, created
\* keeps what the manager's state was when create_snapshot was called
NoStateSnapshot == [taken |-> FALSE, state |-> EmptyDict, shared |-> FALSE, created |-> EmptyDict]

\* StateManager.__init__; change_history holds the key of each StateChange
\* (old_value, new_value and timestamp are not kept)
StateManager_init ==
    [state |-> EmptyDict, change_history |-> << >>, max_history_size |-> 100,
     held |-> NoStateSnapshot,
     listeners |-> NoListeners, heard |-> {},
     invoked |-> [c \in StateListeners \X StateKeys |-> 0],
     last |-> [op |-> "init", key |-> "", value |-> Absent, notify |-> TRUE,
               pre |-> EmptyDict, pre_len |-> 0, pre_listeners |-> NoListeners,
               ret |-> TRUE]]

\* StateManager.add_listener(key, callback)
add_listener(sm, key, l) ==
    IF InSeq(l, sm.listeners[key]) THEN sm ELSE [sm EXCEPT !.listeners[key] = Append(@, l)]

\* StateManager.remove_listener(key, callback)
remove_listener(sm, key, l) ==
    IF InSeq(l, sm.listeners[key]) THEN [sm EXCEPT !.listeners[key] = Without(@, l)] ELSE sm

\* StateManager.clear_listeners
clear_listeners(sm) == [sm EXCEPT !.listeners = NoListeners]

\* the manager with one more callback call noted: heard holds the arguments
\* <<listener, key, old_value, new_value>>, invoked counts the calls
heard_by(sm, l, key, old, new) ==
    [sm EXCEPT !.heard = @ \cup { << l, key, old, new >> }, !.invoked[<< l, key >>] = @ + 1]

\* callback(key, old_value, new_value) of the three listeners; what "raises"
\* raises is caught and printed by _notify_listeners
listener_callback(sm, l, key, old, new) ==
    IF l = "once" THEN remove_listener(heard_by(sm, l, key, old, new), key, l)
    ELSE heard_by(sm, l, key, old, new)

\* for callback in self._listeners[key]: the loop walks the list the manager
\* holds, by position
RECURSIVE notify_from(_, _, _, _, _)
notify_from(sm, key, old, new, i) ==
    IF i > Len(sm.listeners[key]) THEN sm
    ELSE notify_from(listener_callback(sm, sm.listeners[key][i], key, old, new),
                     key, old, new, i + 1)

\* StateManager._notify_listeners(key, old_value, new_value)
notify_listeners(sm, key, old, new) == notify_from(sm, key, old, new, 1)

\* notifications for the keys of a list, as clear and restore_snapshot issue
\* them: news[key] is the new value, Absent for None
RECURSIVE notify_keys(_, _, _, _)
notify_keys(sm, keys, olds, news) ==
    IF keys = << >> THEN sm
    ELSE notify_keys(
             IF olds[Head(keys)] # news[Head(keys)]
             THEN notify_listeners(sm, Head(keys), olds[Head(keys)], news[Head(keys)])
             ELSE sm,
             Tail(keys), olds, news)

\* a store into the dict object self._state (item assignment, pop, clear):
\* whoever holds the same object sees it
store_in_place(sm, dict) ==
    [sm EXCEPT !.state = dict, !.held.state = IF sm.held.shared THEN dict ELSE @]

\* self._change_history.append(StateChange(key, ...))
record_change(sm, key) == [sm EXCEPT !.change_history = Append(@, key)]

\* if len(self._change_history) > self._max_history_size: pop(0)
limit_history(sm) ==
    IF Len(sm.change_history) > sm.max_history_size
    THEN [sm EXCEPT !.change_history = Tail(@)] ELSE sm

\* StateManager.set(key, value, notify)
StateManager_set(sm, key, value, notify) ==
    IF notify /\ sm.state[key] # value
    THEN notify_listeners(
             limit_history(record_change(
                 store_in_place(sm, [sm.state EXCEPT ![key] = value]), key)),
             key, sm.state[key], value)
    ELSE limit_history(record_change(
             store_in_place(sm, [sm.state EXCEPT ![key] = value]), key))

\* StateManager.update(updates, notify): set for each item, in the order of
\* the dict
RECURSIVE StateManager_update(_, _, _)
StateManager_update(sm, updates, notify) ==
    IF updates = << >> THEN sm
    ELSE StateManager_update(
             StateManager_set(sm, Head(updates)[1], Head(updates)[2], notify),
             Tail(updates), notify)

\* StateManager.remove(key); a stored value is never None here
StateManager_remove(sm, key) ==
    IF sm.state[key] # Absent
    THEN notify_listeners(
             record_change(store_in_place(sm, [sm.state EXCEPT ![key] = Absent]), key),
             key, sm.state[key], Absent)
    ELSE sm

\* StateManager.clear
StateManager_clear(sm) ==
    notify_keys(record_change(store_in_place(sm, EmptyDict), AllKeys),
                KeyOrder, sm.state, EmptyDict)

\* create_snapshot that hands out self._state itself
create_snapshot_shared(sm) ==
    [sm EXCEPT !.held = [taken |-> TRUE, state |-> sm.state, shared |-> TRUE,
                         created |-> sm.state]]

\* StateManager.create_snapshot: {"state": copy.deepcopy(self._state), ...}
create_snapshot(sm) ==
    [sm EXCEPT !.held = [taken |-> TRUE, state |-> sm.state, shared |-> FALSE,
                         created |-> sm.state]]

\* StateManager.restore_snapshot(snapshot) with the snapshot held: _state
\* becomes a new dict, a deep copy of snapshot["state"]
restore_snapshot(sm) ==
    notify_keys(
        record_change([sm EXCEPT !.state = sm.held.state, !.held.shared = FALSE], AllKeys),
        KeyOrder, sm.state, sm.held.state)

\* the service types, the resolving threads and the factories: a factory
\* returns a new object without a cleanup method, with one, or with one that
\* raises
ServiceTypes == { "A", "B" }
Threads == { 1, 2 }
\* what a factory makes: an object without cleanup, with cleanup, with a
\* cleanup that raises
Factories == { "plain", "cleanup", "cleanup_raises" }
\* the objects given to register_singleton, the factories of transients
SingletonKinds == { "cleanup", "cleanup_raises" }
TransientFactories == { "plain" }
\* None, for an instance and for the owner of a lock
NoInstance == 0
NoThread == 0

\* ServiceDescriptor absent from _services
NoService ==
    [registered |-> FALSE, factory |-> "plain", singleton |-> TRUE, instance |-> NoInstance,
     lock |-> NoThread, calls |-> 0, returned |-> {}, resolved |-> 0]
\* ServiceDescriptor.__init__(factory, singleton); calls counts the calls of
\* the factory, returned and resolved what resolve gave back through it
ServiceDescriptor(factory, singleton) ==
    [NoService EXCEPT !.registered = TRUE, !.factory = factory, !.singleton = singleton]

IdleThread == [pc |-> "idle", type |-> "A", made |-> NoInstance, result |-> NoInstance]

\* Container.__init__. instances holds every object made: its kind and the
\* calls of its cleanup; recorded is the dict _instances
Container_init ==
    [services |-> [t \in ServiceTypes |-> NoService], recorded |-> [t \in ServiceTypes |-> NoInstance],
     lock |-> NoThread, instances |-> << >>, threads |-> [t \in Threads |-> IdleThread],
     resolves |-> 0, registrations |-> 0,
     last |-> [op |-> "init", type |-> "", thread |-> NoThread, result |-> NoInstance,
               pre |-> [t \in ServiceTypes |-> NoService], pre_instances |-> << >>]]

\* a lock taken as if nobody could hold it
can_acquire_unlocked(owner, thread) == TRUE

\* with lock: the lock is free, or held by the thread itself (the RLock of
\* the container)
can_acquire(owner, thread) == owner \in { NoThread, thread }

\* the factory called: a new object of the factory's kind
new_instance(c, factory) == [c EXCEPT !.instances = Append(@, [kind |-> factory, cleanups |-> 0])]

\* Container.register(service_type, factory, singleton)
register(c, type, factory, singleton) ==
    [c EXCEPT !.services[type] = ServiceDescriptor(factory, singleton)]

\* Container.register_singleton(service_type, instance) for a new object of
\* the given kind
register_singleton(c, type, kind) ==
    [new_instance(c, kind) EXCEPT
        !.services[type] = [ServiceDescriptor(kind, TRUE) EXCEPT !.instance = Len(c.instances) + 1],
        !.recorded[type] = Len(c.instances) + 1]

\* Container.register_transient(service_type, factory)
register_transient(c, type, factory) == register(c, type, factory, FALSE)

\* instance.cleanup() where the instance has the method
call_cleanup(c, id) ==
    IF c.instances[id].kind = "plain" THEN c
    ELSE [c EXCEPT !.instances[id].cleanups = @ + 1]
\* instance.cleanup() raises
cleanup_raises(c, id) == c.instances[id].kind = "cleanup_raises"

\* the singleton instance of a descriptor, if it has one
singleton_instance(d) == IF d.registered /\ d.singleton THEN d.instance ELSE NoInstance

\* Container.remove(service_type)
container_remove(c, type) ==
    IF ~c.services[type].registered THEN c
    ELSE [(IF singleton_instance(c.services[type]) # NoInstance
           THEN call_cleanup(c, singleton_instance(c.services[type])) ELSE c)
          EXCEPT !.services[type] = NoService, !.recorded[type] = NoInstance]

\* the loop of clear without its try: the first cleanup that raises ends it,
\* raised tells so
RECURSIVE cleanup_all_unguarded(_, _)
cleanup_all_unguarded(c, types) ==
    IF types = << >> THEN [c |-> c, raised |-> FALSE]
    ELSE IF singleton_instance(c.services[Head(types)]) = NoInstance
         THEN cleanup_all_unguarded(c, Tail(types))
         ELSE IF cleanup_raises(c, singleton_instance(c.services[Head(types)]))
              THEN [c |-> call_cleanup(c, singleton_instance(c.services[Head(types)])),
                    raised |-> TRUE]
              ELSE cleanup_all_unguarded(
                       [call_cleanup(c, singleton_instance(c.services[Head(types)]))
                           EXCEPT !.recorded[Head(types)] = NoInstance],
                       Tail(types))

\* the loop of clear over _services: cleanup of every singleton instance,
\* what it raises is dropped
RECURSIVE cleanup_all(_, _)
cleanup_all(c, types) ==
    IF types = << >> THEN [c |-> c, raised |-> FALSE]
    ELSE IF singleton_instance(c.services[Head(types)]) = NoInstance
         THEN cleanup_all(c, Tail(types))
         ELSE cleanup_all(
                  [call_cleanup(c, singleton_instance(c.services[Head(types)]))
                      EXCEPT !.recorded[Head(types)] = NoInstance],
                  Tail(types))

\* self._services.clear(), reached when the loop raised nothing
clear_services(r) ==
    IF r.raised THEN r.c ELSE [r.c EXCEPT !.services = [t \in ServiceTypes |-> NoService]]

\* Container.clear; the loop takes the types in the order of TypeOrder
TypeOrder == << "A", "B" >>
container_clear(c) == clear_services(cleanup_all(c, TypeOrder))

\* ---- plugins/command.py: Command ----

\* the methods of the controller and len(inspect.signature(m).parameters);
\* fail takes nothing and raises, list_commands is Command.list_commands
Methods == { "reset_view", "set_speed", "add_marker", "list_commands", "fail" }
parameter_count ==
    [m \in Methods |-> IF m = "set_speed" THEN 1 ELSE IF m = "add_marker" THEN 2 ELSE 0]
method_raises(m) == m = "fail"

\* the first word of a command string: a name, written in lower case or
\* with capitals, after so many slashes
MaxSlashes == 1
CommandNames ==
    { "help", "reset_view", "set_speed", "add_marker", "toggle", "zoom", "fail", "unknown" }
Word(name, upper, slashes) == [name |-> name, upper |-> upper, slashes |-> slashes]
Words == { Word(n, u, sl) : n \in CommandNames, u \in BOOLEAN, sl \in 0 .. MaxSlashes }
\* str.lstrip('/')
lstrip(word) == [word EXCEPT !.slashes = 0]
\* str.lower() taken for the identity
lower_unchanged(word) == word
\* str.lower()
lower(word) == [word EXCEPT !.upper = FALSE]

\* the commands of commands.json as the tests write it, with its
\* no_param_commands
LoadedCommands == { "reset_view", "set_speed", "add_marker" }
NoMethod == "none"

\* Command.__init__: _load_commands, then register_command('help', ...);
\* called counts the runs of each controller method
Command_init ==
    [commands |-> [w \in Words |->
                      IF w.upper \/ w.slashes > 0 THEN NoMethod
                      ELSE IF w.name \in LoadedCommands THEN w.name
                      ELSE IF w.name = "help" THEN "list_commands" ELSE NoMethod],
     no_param_commands |-> { Word("reset_view", FALSE, 0), Word("help", FALSE, 0) },
     called |-> [m \in Methods |-> 0],
     executes |-> 0,
     last |-> [op |-> "init", words |-> << >>, ret |-> << >>,
               pre_called |-> [m \in Methods |-> 0]]]

\* Command.register_command(cmd, method, description, no_param)
register_command(c, cmd, method, no_param) ==
    [c EXCEPT !.commands[cmd] = method,
              !.no_param_commands = IF no_param THEN @ \cup { cmd } ELSE @]

\* what execute returns: the text up to the first colon or blank, and the rest
Error(text) == << "error", text >>
Success(text) == << "command", text >>

\* func(*args): Python raises TypeError before the body of a function called
\* with a number of arguments that is not its number of parameters
call(c, func, nargs) ==
    IF nargs # parameter_count[func] THEN [c |-> c, raised |-> TRUE]
    ELSE [c |-> [c EXCEPT !.called[func] = @ + 1], raised |-> method_raises(func)]

\* the end of execute: the except clause, or the success text
execute_result(r) ==
    [c |-> r.c, ret |-> IF r.raised THEN Error("executecommand hourexception")
                        ELSE Success("executesuccess")]
execute_return(c, ret) == [c |-> c, ret |-> ret]

\* execute, the branch len(args) > 0
execute_with_args(c, cmd, nargs) ==
    IF cmd \in c.no_param_commands THEN execute_return(c, Error("not supportparam"))
    ELSE IF parameter_count[c.commands[cmd]] = 0
         THEN execute_return(c, Error("not supportparam"))
    ELSE IF nargs > parameter_count[c.commands[cmd]]
         THEN execute_return(c, Error("param"))
    ELSE IF nargs < parameter_count[c.commands[cmd]]
         THEN execute_return(c, Error("param"))
    ELSE execute_result(call(c, c.commands[cmd], nargs))

\* execute, the branch without arguments
execute_without_args(c, cmd) ==
    IF parameter_count[c.commands[cmd]] > 0 /\ cmd \notin c.no_param_commands
    THEN execute_return(c, Error("needparam"))
    ELSE execute_result(call(c, c.commands[cmd], 0))

\* execute once cmd is known to be a command
execute_command(c, cmd, nargs) ==
    IF nargs > 0 THEN execute_with_args(c, cmd, nargs) ELSE execute_without_args(c, cmd)

\* Command.execute(command_str) where parts = command_str.strip().split()
execute(c, parts) ==
    IF parts = << >> THEN execute_return(c, Error("commandis empty"))
    ELSE IF c.commands[lower(lstrip(Head(parts)))] = NoMethod
         THEN execute_return(c, Error("command"))
    ELSE execute_command(c, lower(lstrip(Head(parts))), Len(parts) - 1)

XInit ==
    /\ snapshot = NoSnapshot
    /\ container = Container_init
    /\ command = Command_init
    /\ state_manager = StateManager_init
    /\ gm = GridManager_init
    /\ config_manager = ConfigManager_init
    /\ event_bus = EventBus_init

Init == DispatcherInit /\ MarkerSystemInit(NoGrid) /\ XInit

Next ==
    /\ \/ \E device \in DeviceArgs : CallSetDevice(device)
       \/ \E value \in ConfigValues : ConfigSetDevice(value)
       \/ \E device \in DeviceArgs \cup {NoDevice} : PublishAppInitialized(device)
       \/ CallCleanup
       \/ \E op \in ComputeOps, g \in TestGrids, a \in CallArgs : CallCompute(op, g, a)
       \/ \E op \in ComputeOps, g \in TestGrids, a \in CallArgs : CallGpuCompute(op, g, a)
    /\ UNCHANGED tvars
    /\ UNCHANGED xvars

\* The dispatcher with its collaborators: device switching, configuration
\* changes, bus events, teardown and compute calls.
Spec == Init /\ [][Next]_vars

(***************************************************************************)
(* Operations of the feedback-tick specification                           *)
(***************************************************************************)
MaxMarkers == 2
MaxTicks == 1

\* add_marker arguments <<x, y, mag>>; raw values, also outside the grid
AddArgs == { << ROne, ROne, ROne >>, << RInt(2), ROne, Half >>, << RInt(5), RInt(-2), RZero >> }
\* the marker another component stores: raw position outside the grid
OtherArgs == { << RInt(-1), ROne, RInt(2) >> }
\* update_field_and_markers arguments <<dt, gravity, speed_factor>>
TickArgs == { << ROne, RZero, ROne >>, << ROne, RZero, << 9, 10 >> >>,
              << Half, Quarter, Half >> }
ZeroGrid3 == create_vector_grid(3, 3, VZero)
TickGrids == { ZeroGrid3, create_vector_grid(4, 3, VZero) }

\* MarkerSystem.add_marker
AddMarker(x, y, mag) ==
    /\ pc = "idle"
    /\ Len(heap) < MaxMarkers
    /\ heap' = Append(heap, new_marker(x, y, mag, RZero, RZero))
    /\ markers' = Append(markers, Len(heap) + 1)
    /\ stored_markers' = sync_to_state_manager(markers')
    /\ UNCHANGED << grid_buf, pc, tick, ticks >>

\* MarkerSystem.clear_markers
ClearMarkers ==
    /\ pc = "idle"
    /\ markers' = << >>
    /\ stored_markers' = sync_to_state_manager(markers')
    /\ UNCHANGED << heap, grid_buf, pc, tick, ticks >>

\* StateManager.set("markers", value) by another component sharing the state
\* manager; value is a list holding one newly built marker, or the empty list
StateSetMarkers(fresh, x, y, mag) ==
    /\ pc = "idle"
    /\ IF fresh
       THEN /\ Len(heap) < MaxMarkers
            /\ heap' = Append(heap, new_marker(x, y, mag, RZero, RZero))
            /\ stored_markers' = [present |-> TRUE, list |-> << Len(heap) + 1 >>]
       ELSE /\ heap' = heap
            /\ stored_markers' = [present |-> TRUE, list |-> << >>]
    /\ UNCHANGED << markers, grid_buf, pc, tick, ticks >>

\* update_field_and_markers entered: batch_create_tiny_vectors_from_markers
\* builds its list from self.markers; an empty list makes no backend call
TickBegin(dt, gravity, speed_factor) ==
    /\ pc = "idle"
    /\ ticks < MaxTicks
    /\ tick' = [IdleTick EXCEPT !.dt = dt, !.gravity = gravity,
                                !.speed_factor = speed_factor,
                                !.tiny = tiny_vector_positions(heap, markers),
                                !.start_markers = markers,
                                !.start_stored = stored_markers,
                                !.start_heap = heap, !.start_grid = grid_buf]
    /\ pc' = IF seed_phase_done(0, tick'.tiny) THEN "sync" ELSE "seed"
    /\ UNCHANGED << heap, markers, stored_markers, grid_buf, ticks >>

\* one iteration of the loop of create_tiny_vectors_batch
SeedStep ==
    /\ pc = "seed"
    /\ LET r == vc_create_tiny_vectors_batch(D, grid_buf, << tick.tiny[tick.seeded + 1] >>)
       IN  IF r.outcome = "ok"
           THEN /\ grid_buf' = r.grid
                /\ tick' = [tick EXCEPT !.seeded = @ + 1]
                /\ pc' = IF seed_phase_done(tick'.seeded, tick.tiny) THEN "sync" ELSE "seed"
           ELSE /\ pc' = "idle"
                /\ UNCHANGED << grid_buf, tick >>
    /\ UNCHANGED << heap, markers, stored_markers, ticks >>

\* update_markers up to the batch fit: _sync_markers_from_state and
\* _collect_marker_positions
SyncStep ==
    /\ pc = "sync"
    /\ markers' = sync_markers_from_state(markers, stored_markers)
    /\ tick' = [tick EXCEPT !.positions = collect_marker_positions(heap, markers')]
    /\ pc' = IF sample_phase_done(<< >>, tick'.positions)
             THEN (IF update_phase_done(<< >>, markers') THEN "commit" ELSE "update")
             ELSE "sample"
    /\ UNCHANGED << heap, stored_markers, grid_buf, ticks >>

\* one element of the result of fit_vectors_at_positions_batch
SampleStep ==
    /\ pc = "sample"
    /\ LET r == vc_fit_vectors_at_positions_batch(
                    D, grid_buf, << tick.positions[Len(tick.fitted) + 1] >>)
       IN  IF r.outcome = "ok"
           THEN /\ tick' = [tick EXCEPT !.fitted = Append(@, r.value[1])]
                /\ pc' = IF sample_phase_done(tick'.fitted, tick.positions)
                         THEN "update" ELSE "sample"
           ELSE /\ pc' = "idle"
                /\ UNCHANGED tick
    /\ UNCHANGED << heap, markers, stored_markers, grid_buf, ticks >>

\* one iteration of the loop of update_markers: the marker dict is updated in
\* place and appended to new_markers
UpdateStep ==
    /\ pc = "update"
    /\ LET i == Len(tick.new_markers) + 1
           id == markers[i]
       IN  /\ heap' = [heap EXCEPT ![id] =
                          update_single_marker(@, tick.fitted[i], tick.dt, tick.gravity,
                                               tick.speed_factor, cell_size,
                                               grid_buf.w, grid_buf.h)]
           /\ tick' = [tick EXCEPT !.new_markers = Append(@, id)]
           /\ pc' = IF update_phase_done(tick'.new_markers, markers) THEN "commit" ELSE "update"
    /\ UNCHANGED << markers, stored_markers, grid_buf, ticks >>

\* MarkerSystem._update_markers_list, and the tick returns
CommitStep ==
    /\ pc = "commit"
    /\ markers' = tick.new_markers
    /\ stored_markers' = sync_to_state_manager(markers')
    /\ pc' = "idle"
    /\ ticks' = ticks + 1
    /\ UNCHANGED << heap, grid_buf, tick >>

\* the dispatcher of the tick specification: constructed, device "cpu"
TickInit ==
    /\ \E outcome \in {"no_platform"} :
          LET d == VectorFieldCalculator_init(outcome, "cpu")
          IN  /\ current_device = d.dev
              /\ compute_device_cfg = d.cfg
              /\ gpu_calculator = d.gpu
              /\ bus_log = d.log
              /\ last = [op |-> "init", target |-> "dispatcher", arg |-> outcome,
                         a |-> NoArgs, ret |-> TRUE, outcome |-> "ok", value |-> << >>,
                         grid_in |-> NoGrid, grid_out |-> NoGrid,
                         pre_dev |-> d.dev, pre_cfg |-> d.cfg, pre_init |-> d.gpu.initialized]
    /\ \E g \in TickGrids : MarkerSystemInit(g)
    /\ XInit

\* MarkerSystem.get_markers: list(self.markers), a new list of the same dicts.
\* seen keeps the values the dicts had when the list was returned.
GetMarkers ==
    /\ pc = "idle"
    /\ ~snapshot.taken
    /\ markers # << >>
    /\ snapshot' = [taken |-> TRUE, list |-> markers,
                    seen |-> [i \in 1 .. Len(markers) |-> heap[markers[i]]],
                    ticks |-> ticks, touched |-> FALSE]
    /\ UNCHANGED tvars

\* the caller removes the first element of the list it was given
SnapshotRemoveFirst ==
    /\ pc = "idle"
    /\ snapshot.list # << >>
    /\ snapshot' = [snapshot EXCEPT !.list = Tail(@), !.seen = Tail(@)]
    /\ UNCHANGED tvars

\* the caller assigns a field of the first particle of the list it was given:
\* snapshot[0]["x"] = value stores into the dict the list refers to
SnapshotSetField(value) ==
    /\ pc = "idle"
    /\ snapshot.list # << >>
    /\ ~snapshot.touched
    /\ heap[snapshot.list[1]].x # value
    /\ heap' = [heap EXCEPT ![snapshot.list[1]].x = value]
    /\ snapshot' = [snapshot EXCEPT !.touched = TRUE]
    /\ UNCHANGED << markers, stored_markers, grid_buf, pc, tick, ticks >>

TickNext ==
    /\ \/ \E a \in AddArgs : AddMarker(a[1], a[2], a[3])
       \/ ClearMarkers
       \/ \E fresh \in BOOLEAN, a \in OtherArgs : StateSetMarkers(fresh, a[1], a[2], a[3])
       \/ \E a \in TickArgs : TickBegin(a[1], a[2], a[3])
       \/ SeedStep
       \/ SyncStep
       \/ SampleStep
       \/ UpdateStep
       \/ CommitStep
    /\ UNCHANGED dvars
    /\ UNCHANGED xvars

\* The marker system driven by one simulation thread: markers are added and
\* cleared between ticks, a tick runs step by step to its end.
SpecTick == TickInit /\ [][TickNext]_vars

\* the values a holder of a handed-out list assigns to a particle's x
SnapshotValues == { RZero }
\* the particles and the step of the snapshot specification
SnapshotAddArgs == { << ROne, ROne, ROne >>, << RInt(2), ROne, Half >> }
SnapshotTickArgs == { << ROne, RZero, << 9, 10 >> >> }

SnapshotInit == TickInit /\ grid_buf = ZeroGrid3

SnapshotNext ==
    /\ \/ GetMarkers
       \/ SnapshotRemoveFirst
       \/ \E value \in SnapshotValues : SnapshotSetField(value)
       \/ UNCHANGED snapshot /\ \E a \in SnapshotAddArgs : AddMarker(a[1], a[2], a[3])
       \/ UNCHANGED snapshot /\ ClearMarkers
       \/ UNCHANGED snapshot /\ \E a \in SnapshotTickArgs : TickBegin(a[1], a[2], a[3])
       \/ UNCHANGED snapshot /\ SeedStep
       \/ UNCHANGED snapshot /\ SyncStep
       \/ UNCHANGED snapshot /\ SampleStep
       \/ UNCHANGED snapshot /\ UpdateStep
       \/ UNCHANGED snapshot /\ CommitStep
    /\ UNCHANGED << dvars, gm, config_manager, event_bus, state_manager, container, command >>

\* The marker system with a caller that keeps a list returned by get_markers
\* across adds, clears and steps and changes what it was given.
SpecSnapshot == SnapshotInit /\ [][SnapshotNext]_vars

\* init_grid arguments <<width, height>>
GridSizes == { << 2, 2 >>, << 3, 2 >> }
\* update_grid arguments <<y, x, value>>; (5, 5) is outside every grid
GridUpdates == { << 0, 0, 1 >>, << 1, 1, 1 >>, << 5, 5, 1 >> }
\* the stored buffers: shapes equal to and different from the grids', a
\* buffer with three components, a one-dimensional one, an unreadable file
StoredBuffers ==
    { CorruptFile, NoBuf, UniformBuf(<< 2, 2, 2 >>, 1), UniformBuf(<< 2, 3, 2 >>, 1),
      UniformBuf(<< 2, 2, 3 >>, 1), UniformBuf(<< 4 >>, 1) }

GmInitGrid(width, height) == gm' = init_grid(gm, width, height)
GmUpdateGrid(y, x, v) == gm' = update_grid(gm, y, x, v)
GmClearGrid == gm' = clear_grid(gm)
GmLoadGrid == gm' = load_grid(gm)
GmSaveGrid == gm' = save_grid(gm)
\* the file is written, replaced or deleted from outside
GmWriteFile(buf) == gm' = [gm EXCEPT !.file = buf]

\* the manager as constructed, next to a dispatcher on the cpu device
GridInit == Init /\ last.arg = "no_platform" /\ current_device = "cpu"

GridNext ==
    /\ \/ \E s \in GridSizes : GmInitGrid(s[1], s[2])
       \/ \E u \in GridUpdates : GmUpdateGrid(u[1], u[2], u[3])
       \/ GmClearGrid
       \/ GmLoadGrid
       \/ GmSaveGrid
       \/ \E buf \in StoredBuffers : GmWriteFile(buf)
    /\ UNCHANGED << dvars, tvars, snapshot, config_manager, event_bus, state_manager, container, command >>

\* A GridManager and the file its grid is saved to and loaded from.
SpecGrid == GridInit /\ [][GridNext]_vars

\* values handed to ConfigManager.set
CfgValues == { Num(0), Num(120), Bool(TRUE), Bool(FALSE), Str("gpu") }
\* register_option arguments <<key, default, type, min_value, max_value>>
CfgRegistrations ==
    { << "dyn", Num(5), "number", Num(0), Num(10) >>,
      << "target_fps", Num(30), "number", Num(1), Num(120) >> }

CfgSet(key, value) == config_manager' = ConfigManager_set(config_manager, key, value)
CfgRegisterOption(r) ==
    config_manager' = CfgDone(register_option(config_manager, r[1], r[2], r[3], r[4], r[5]),
                   "register", r[1], r[2], TRUE, << >>)
CfgResetToDefault(key) == config_manager' = reset_to_default(config_manager, key)

ConfigInit == Init /\ last.arg = "no_platform" /\ current_device = "cpu"

ConfigNext ==
    /\ \/ \E key \in CfgKeys, value \in CfgValues : CfgSet(key, value)
       \/ \E r \in CfgRegistrations : CfgRegisterOption(r)
       \/ \E key \in CfgKeys : CfgResetToDefault(key)
    /\ UNCHANGED << dvars, tvars, snapshot, gm, event_bus, state_manager, container, command >>

\* A ConfigManager on its state manager.
SpecConfig == ConfigInit /\ [][ConfigNext]_vars

\* subscriptions a bus holds at most
MaxSubscriptions == 2
\* filters a bus holds at most: unsubscribe drops the filters of a type only
\* with its last handler
MaxFilters == 2
\* set_max_recursion_depth arguments
BusDepths == { 0, 3 }
\* subscribe arguments <<event_type, handler>>: every subscriber on the grid
\* event, a raising and a republishing one on the event publish issues itself,
\* a raising one on the error event
BusSubscribeArgs ==
    ({"GRID_UPDATED"} \X BusHandlers)
    \cup ({"ASYNC_EVENT_PROCESSED"} \X {"raises", "republishes"})
    \cup ({"GPU_COMPUTE_ERROR"} \X {"raises"})

Subscriptions(b) == Len(b.handlers["GRID_UPDATED"]) + Len(b.handlers["GPU_COMPUTE_ERROR"])
                    + Len(b.handlers["ASYNC_EVENT_PROCESSED"])

Filters(b) == Len(b.filters["GRID_UPDATED"]) + Len(b.filters["GPU_COMPUTE_ERROR"])
              + Len(b.filters["ASYNC_EVENT_PROCESSED"])

\* an operation called from outside any handler: the trace starts anew
BusDone(b, op, type, raised) ==
    event_bus' = [b EXCEPT !.last = [op |-> op, type |-> type, raised |-> raised]]
BusFresh ==
    [event_bus EXCEPT !.calls = {}, !.invoked = [c \in BusHandlers \X BusTypes |-> 0],
                      !.dropped = 0]

BusSubscribe(type, h, filter) ==
    /\ Subscriptions(event_bus) < MaxSubscriptions
    /\ filter = "none" \/ Filters(event_bus) < MaxFilters
    /\ BusDone(subscribe(BusFresh, type, h, filter), "subscribe", "", FALSE)
BusUnsubscribe(type, h) ==
    /\ InSeq(h, event_bus.handlers[type])
    /\ BusDone(unsubscribe(BusFresh, type, h), "unsubscribe", "", FALSE)
BusClear == BusDone(bus_clear(BusFresh), "clear", "", FALSE)
BusSetMaxRecursionDepth(depth) ==
    BusDone([BusFresh EXCEPT !.max_depth = depth], "set_max_recursion_depth", "", FALSE)
BusEnableAsync(enabled) ==
    BusDone([BusFresh EXCEPT !.async_enabled = enabled], "enable_async", "", FALSE)
\* a top-level publish and what its caller gets
BusPublish(type) ==
    BusDone(bus_publish(BusFresh, type).b, "publish", type, bus_publish(BusFresh, type).raised)

BusInit == Init /\ last.arg = "no_platform" /\ current_device = "cpu"

BusNext ==
    /\ \/ \E a \in BusSubscribeArgs, filter \in BusFilters \cup {"none"} :
             BusSubscribe(a[1], a[2], filter)
       \/ \E type \in BusTypes, h \in BusHandlers : BusUnsubscribe(type, h)
       \/ BusClear
       \/ \E depth \in BusDepths : BusSetMaxRecursionDepth(depth)
       \/ \E enabled \in BOOLEAN : BusEnableAsync(enabled)
       \/ \E type \in BusTypes : BusPublish(type)
    /\ UNCHANGED << dvars, tvars, snapshot, gm, config_manager, state_manager, container, command >>

\* An EventBus, its subscribers and a publisher outside any handler.
SpecBus == BusInit /\ [][BusNext]_vars

\* the same subscriber calls, the bus keeping beside its lists the filter
\* each subscribed handler came with (given), which EventBus itself does not
FilterSubscribe(type, h, filter) ==
    /\ ~InSeq(h, event_bus.handlers[type])
    /\ Subscriptions(event_bus) < MaxSubscriptions
    /\ filter = "none" \/ Filters(event_bus) < MaxFilters
    /\ BusDone([subscribe(BusFresh, type, h, filter) EXCEPT !.given[<< h, type >>] = filter],
               "subscribe", "", FALSE)
FilterUnsubscribe(type, h) ==
    /\ InSeq(h, event_bus.handlers[type])
    /\ BusDone([unsubscribe(BusFresh, type, h) EXCEPT !.given[<< h, type >>] = "none"],
               "unsubscribe", "", FALSE)

FilterNext ==
    /\ \/ \E a \in BusSubscribeArgs, filter \in BusFilters \cup {"none"} :
             FilterSubscribe(a[1], a[2], filter)
       \/ \E type \in BusTypes, h \in BusHandlers : FilterUnsubscribe(type, h)
       \/ \E type \in BusTypes : BusPublish(type)
    /\ UNCHANGED << dvars, tvars, snapshot, gm, config_manager, state_manager, container,
                    command >>

\* An EventBus, subscribers that come with and without filters and leave, and
\* a publisher.
SpecFilter == BusInit /\ [][FilterNext]_vars

\* the value the history limit is set to (the attribute _max_history_size is
\* assigned from outside)
MaxHistorySize == 2
\* entries the history may hold beyond MaxHistorySize
MaxOverrun == 1
HistoryCap == MaxHistorySize + MaxOverrun
\* listeners a manager holds at most
MaxListeners == 2
Listeners(sm) == Len(sm.listeners["key1"]) + Len(sm.listeners["key2"])
\* update arguments: the items of the dict in insertion order
StateUpdates ==
    { << << "key1", 2 >>, << "key2", 1 >> >>, << << "key2", 2 >>, << "key2", 1 >> >> }

\* an operation on the manager returned: what it returned, the state and the
\* length of the history the manager had before
SmDone(sm, op, key, value, notify, ret) ==
    /\ Len(sm.change_history) <= HistoryCap
    /\ state_manager' =
          [sm EXCEPT !.last = [op |-> op, key |-> key, value |-> value, notify |-> notify,
                               pre |-> state_manager.state,
                               pre_len |-> Len(state_manager.change_history),
                               pre_listeners |-> state_manager.listeners,
                               ret |-> ret]]
\* an operation called from outside any listener: the calls are noted anew
SmFresh ==
    [state_manager EXCEPT !.heard = {},
                          !.invoked = [c \in StateListeners \X StateKeys |-> 0]]

SmSet(key, value, notify) ==
    SmDone(StateManager_set(SmFresh, key, value, notify), "set", key, value, notify, TRUE)
SmUpdate(updates) ==
    SmDone(StateManager_update(SmFresh, updates, TRUE), "update", "", Absent, TRUE, TRUE)
SmRemove(key) ==
    SmDone(StateManager_remove(SmFresh, key), "remove", key, Absent, TRUE,
           state_manager.state[key] # Absent)
SmClear == SmDone(StateManager_clear(SmFresh), "clear", "", Absent, TRUE, TRUE)
SmCreateSnapshot ==
    SmDone(create_snapshot(SmFresh), "create_snapshot", "", Absent, TRUE, TRUE)
SmRestoreSnapshot ==
    /\ state_manager.held.taken
    /\ SmDone(restore_snapshot(SmFresh), "restore_snapshot", "", Absent, TRUE, TRUE)
SmAddListener(key, l) ==
    /\ Listeners(state_manager) < MaxListeners
    /\ ~InSeq(l, state_manager.listeners[key])
    /\ SmDone(add_listener(SmFresh, key, l), "add_listener", key, Absent, TRUE, TRUE)
SmRemoveListener(key, l) ==
    /\ InSeq(l, state_manager.listeners[key])
    /\ SmDone(remove_listener(SmFresh, key, l), "remove_listener", key, Absent, TRUE, TRUE)
SmClearListeners ==
    /\ Listeners(state_manager) > 0
    /\ SmDone(clear_listeners(SmFresh), "clear_listeners", "", Absent, TRUE, TRUE)
\* manager._max_history_size = MaxHistorySize, before anything is recorded
SmSetMaxHistorySize ==
    /\ state_manager.change_history = << >>
    /\ state_manager.max_history_size # MaxHistorySize
    /\ SmDone([SmFresh EXCEPT !.max_history_size = MaxHistorySize],
              "max_history_size", "", Absent, TRUE, TRUE)

StateInit == Init /\ last.arg = "no_platform" /\ current_device = "cpu"

StateNext ==
    /\ \/ \E key \in StateKeys, value \in StateValues : SmSet(key, value, TRUE)
       \/ \E updates \in StateUpdates : SmUpdate(updates)
       \/ \E key \in StateKeys : SmRemove(key)
       \/ SmClear
       \/ SmCreateSnapshot
       \/ SmRestoreSnapshot
       \/ SmSetMaxHistorySize
    /\ UNCHANGED << dvars, tvars, snapshot, gm, config_manager, event_bus, container, command >>

\* A StateManager and a caller that keeps one snapshot of it.
SpecState == StateInit /\ [][StateNext]_vars

ListenerNext ==
    /\ \/ \E key \in StateKeys, l \in StateListeners : SmAddListener(key, l)
       \/ \E key \in StateKeys, l \in StateListeners : SmRemoveListener(key, l)
       \/ SmClearListeners
       \/ \E key \in StateKeys, value \in StateValues, notify \in BOOLEAN :
             SmSet(key, value, notify)
       \/ \E key \in StateKeys : SmRemove(key)
       \/ SmClear
    /\ UNCHANGED << dvars, tvars, snapshot, gm, config_manager, event_bus, container, command >>

\* A StateManager, the listeners added to it and removed from it, and a
\* caller that changes the state.
SpecListener == StateInit /\ [][ListenerNext]_vars

\* resolve calls and registrations made in one behaviour
MaxResolves == 2
MaxRegistrations == 2

\* an operation of the container returned; what remove and clear found is
\* kept beside it
CtDone(c, op, type, thread, result) ==
    container' = [c EXCEPT !.last = [op |-> op, type |-> type, thread |-> thread,
                                     result |-> result,
                                     pre |-> IF op \in { "remove", "clear" }
                                             THEN container.services
                                             ELSE Container_init.services,
                                     pre_instances |-> IF op \in { "remove", "clear" }
                                                       THEN container.instances
                                                       ELSE << >>]]
\* one more registration
Registered(c) == [c EXCEPT !.registrations = @ + 1]
CanRegister == container.lock = NoThread /\ container.registrations < MaxRegistrations
\* a step inside resolve
CtStep(c, thread, at) == container' = [c EXCEPT !.threads[thread].pc = at]
\* no thread is inside resolve
NoneResolving == \A t \in Threads : container.threads[t].pc = "idle"
Free == container.lock = NoThread

\* a thread calls Container.resolve(service_type) and enters with self._lock
ResolveLock(thread, type) ==
    /\ container.threads[thread].pc = "idle"
    /\ container.resolves < MaxResolves
    /\ can_acquire(container.lock, thread)
    /\ CtStep([container EXCEPT !.resolves = @ + 1, !.lock = thread,
                                !.threads[thread] = [IdleThread EXCEPT !.type = type]],
              thread, "lookup")

\* resolve: if service_type not in self._services: return None; else
\* get_instance, which creates at once when the service is not a singleton
ResolveLookup(thread) ==
    /\ container.threads[thread].pc = "lookup"
    /\ CtStep(container, thread,
              IF ~container.services[container.threads[thread].type].registered
              THEN "return"
              ELSE IF container.services[container.threads[thread].type].singleton
                   THEN "with_descriptor_lock" ELSE "create_transient")

\* get_instance of a transient service: return self._create_instance(...)
ResolveCreateTransient(thread) ==
    /\ container.threads[thread].pc = "create_transient"
    /\ CtStep([new_instance(container,
                            container.services[container.threads[thread].type].factory)
                  EXCEPT !.services[container.threads[thread].type].calls = @ + 1,
                         !.threads[thread].result = Len(container.instances) + 1],
              thread, "return")

\* get_instance: with self._lock (the lock of the descriptor)
ResolveDescriptorLock(thread) ==
    /\ container.threads[thread].pc = "with_descriptor_lock"
    /\ can_acquire(container.services[container.threads[thread].type].lock, thread)
    /\ CtStep([container EXCEPT !.services[container.threads[thread].type].lock = thread],
              thread,
              IF container.services[container.threads[thread].type].instance = NoInstance
              THEN "create" ELSE "take")

\* get_instance: self._create_instance(container), the factory is called
ResolveCreate(thread) ==
    /\ container.threads[thread].pc = "create"
    /\ CtStep([new_instance(container,
                            container.services[container.threads[thread].type].factory)
                  EXCEPT !.services[container.threads[thread].type].calls = @ + 1,
                         !.threads[thread].made = Len(container.instances) + 1],
              thread, "store")

\* get_instance: self.instance = (the object made)
ResolveStore(thread) ==
    /\ container.threads[thread].pc = "store"
    /\ CtStep([container EXCEPT !.services[container.threads[thread].type].instance =
                                    container.threads[thread].made],
              thread, "take")

\* get_instance: return self.instance, the lock of the descriptor released
ResolveTake(thread) ==
    /\ container.threads[thread].pc = "take"
    /\ CtStep([container EXCEPT
                  !.threads[thread].result =
                      container.services[container.threads[thread].type].instance,
                  !.services[container.threads[thread].type].lock = NoThread],
              thread, "return")

\* resolve returns: the lock of the container released
ResolveReturn(thread) ==
    /\ container.threads[thread].pc = "return"
    /\ CtDone([container EXCEPT
                  !.lock = IF @ = thread THEN NoThread ELSE @,
                  !.threads[thread] = IdleThread,
                  !.services[container.threads[thread].type].returned =
                      IF container.threads[thread].result = NoInstance THEN @
                      ELSE @ \cup { container.threads[thread].result },
                  !.services[container.threads[thread].type].resolved =
                      IF container.threads[thread].result = NoInstance THEN @ ELSE @ + 1],
              "resolve", container.threads[thread].type, thread,
              container.threads[thread].result)

\* register, register_singleton, register_transient, remove and clear hold
\* the lock of the container from their first to their last statement
CtRegister(type, factory) ==
    /\ CanRegister
    /\ CtDone(Registered(register(container, type, factory, TRUE)), "register", type,
              NoThread, NoInstance)
CtRegisterSingleton(type, kind) ==
    /\ CanRegister
    /\ CtDone(Registered(register_singleton(container, type, kind)), "register_singleton",
              type, NoThread, NoInstance)
CtRegisterTransient(type, factory) ==
    /\ CanRegister
    /\ CtDone(Registered(register_transient(container, type, factory)),
              "register_transient", type, NoThread, NoInstance)
CtRemove(type) ==
    /\ Free
    /\ CtDone(container_remove(container, type), "remove", type, NoThread, NoInstance)
CtClear ==
    /\ Free
    /\ CtDone(container_clear(container), "clear", "", NoThread, NoInstance)

ContainerInit == Init /\ last.arg = "no_platform" /\ current_device = "cpu"

ContainerNext ==
    /\ \/ \E thread \in Threads, type \in ServiceTypes : ResolveLock(thread, type)
       \/ \E thread \in Threads : ResolveLookup(thread)
       \/ \E thread \in Threads : ResolveCreateTransient(thread)
       \/ \E thread \in Threads : ResolveDescriptorLock(thread)
       \/ \E thread \in Threads : ResolveCreate(thread)
       \/ \E thread \in Threads : ResolveStore(thread)
       \/ \E thread \in Threads : ResolveTake(thread)
       \/ \E thread \in Threads : ResolveReturn(thread)
       \/ \E type \in ServiceTypes, factory \in Factories : CtRegister(type, factory)
       \/ \E type \in ServiceTypes, kind \in SingletonKinds : CtRegisterSingleton(type, kind)
       \/ \E type \in ServiceTypes, factory \in TransientFactories :
             CtRegisterTransient(type, factory)
       \/ \E type \in ServiceTypes : CtRemove(type)
       \/ CtClear
    /\ UNCHANGED << dvars, tvars, snapshot, gm, config_manager, event_bus, state_manager,
                    command >>

\* A Container, threads that resolve services from it and a thread that
\* registers, removes and clears.
SpecContainer == ContainerInit /\ [][ContainerNext]_vars

\* arguments after the name, calls of execute in one behaviour
MaxArgs == 3
MaxExecutes == 2
\* the command strings: blank ones, and a name followed by arguments
RECURSIVE Arguments(_)
Arguments(n) == IF n = 0 THEN << >> ELSE Append(Arguments(n - 1), "10")
CommandStrings == { << >> } \cup { << w >> \o Arguments(n) : w \in Words, n \in 0 .. MaxArgs }
\* what plugins register: a command whose method takes a parameter entered
\* as taking none, a name with capitals, a command that raises
RegisterArgs ==
    { << Word("toggle", FALSE, 0), "set_speed", TRUE >>,
      << Word("zoom", TRUE, 0), "reset_view", FALSE >>,
      << Word("fail", FALSE, 0), "fail", FALSE >> }

CmdDone(c, op, words, ret) ==
    command' = [c EXCEPT !.last = [op |-> op, words |-> words, ret |-> ret,
                                   pre_called |-> command.called]]

CmdExecute(parts) ==
    /\ command.executes < MaxExecutes
    /\ CmdDone([execute(command, parts).c EXCEPT !.executes = @ + 1], "execute", parts,
               execute(command, parts).ret)
CmdRegisterCommand(cmd, method, no_param) ==
    /\ command.commands[cmd] = NoMethod
    /\ CmdDone(register_command(command, cmd, method, no_param), "register_command",
               << cmd >>, << >>)

CommandInit == Init /\ last.arg = "no_platform" /\ current_device = "cpu"

CommandNext ==
    /\ \/ \E parts \in CommandStrings : CmdExecute(parts)
       \/ \E a \in RegisterArgs : CmdRegisterCommand(a[1], a[2], a[3])
    /\ UNCHANGED << dvars, tvars, snapshot, gm, config_manager, event_bus, state_manager,
                    container >>

\* A Command over a controller, the plugins that register commands and a
\* user who enters command strings.
SpecCommand == CommandInit /\ [][CommandNext]_vars

(***************************************************************************)
(* Claims about the dispatcher (specification Spec)                        *)
(***************************************************************************)
IsSetDevice == last.op = "set_device"
IsDispatcherCompute == last.target = "dispatcher" /\ last.op \in ComputeOps
IsGpuCompute == last.target = "gpu" /\ last.op \in ComputeOps
NeverTornDown == gpu_calculator.ctx # "deleted"

\* C1: when the accelerated backend is unavailable because its initialization
\* failed, set_device("gpu") returns failure and the active device stays
\* "cpu", however often the call is repeated.
C1_GpuRejectedWhenInitFailed ==
    (IsSetDevice /\ last.arg = "gpu" /\ ~last.pre_init /\ NeverTornDown
        /\ last.pre_dev = "cpu")
    => (~last.ret /\ current_device = "cpu")

\* C2: every compute call on the dispatcher is carried out by an available
\* backend: it neither raises nor is skipped for lack of a device.
C2_ComputeNeverFailsForDevice ==
    IsDispatcherCompute
    => (last.outcome = "ok" /\ (last.arg = "gpu" => gpu_calculator.initialized))

\* C3: a CONFIG_CHANGED event for the compute-device key that names a device
\* whose backend is unavailable leaves the active device as it was.
C3_ConfigChangeToUnavailableRejected ==
    (last.op = "config_set" /\ last.arg = "gpu" /\ last.pre_cfg # "gpu" /\ ~last.pre_init)
    => current_device = last.pre_dev

\* C7: set_device(kind) with a known kind whose backend is available returns
\* success, makes kind the active device and publishes a notification that
\* carries kind.
C7_SetDeviceAvailableSwitches ==
    (IsSetDevice /\ last.arg \in {"cpu", "gpu"} /\ (last.arg = "gpu" => last.pre_init))
    => /\ last.ret
       /\ current_device = last.arg
       /\ \E i \in 1 .. Len(bus_log) :
             bus_log[i] = Logged(Ev("APP_INITIALIZED", last.arg), TRUE)

C7_Witness ==
    /\ IsSetDevice /\ last.arg = "gpu" /\ last.pre_init /\ last.pre_dev = "cpu"
    /\ last.ret /\ current_device = "gpu"

\* C8: set_device(kind) with an unknown kind returns failure and changes
\* neither the active device nor the stored configuration value, and
\* publishes nothing.
C8_UnknownKindChangesNothing ==
    (IsSetDevice /\ last.arg \notin {"cpu", "gpu"})
    => /\ ~last.ret
       /\ current_device = last.pre_dev
       /\ compute_device_cfg = last.pre_cfg
       /\ gpu_calculator.initialized = last.pre_init
       /\ bus_log = << >>

C8_Witness == IsSetDevice /\ last.arg = "tpu" /\ ~last.ret /\ current_device = "gpu"

\* C9: the availability of the accelerated backend is fixed at construction:
\* no operation turns it from unavailable to available, and only cleanup
\* turns it from available to unavailable.
C9_AvailabilityOnlyFallsAtCleanup ==
    (gpu_calculator.initialized # last.pre_init)
    => (last.op = "cleanup" /\ last.pre_init /\ ~gpu_calculator.initialized)

C9_Witness == last.op = "cleanup" /\ last.pre_init /\ ~gpu_calculator.initialized

\* C10: every compute entry point of an unavailable accelerated backend
\* reports an error and leaves the grid unchanged.
C10_UnavailableGpuRaises ==
    (IsGpuCompute /\ ~last.pre_init)
    => (last.outcome = "raised" /\ last.grid_out = last.grid_in)

(***************************************************************************)
(* Claims about the feedback tick (specification SpecTick)                 *)
(***************************************************************************)
\* the grid after the splat_cross seed of every entry of tiny, in order
RECURSIVE SeedEvery(_, _)
SeedEvery(g, tiny) ==
    IF tiny = << >> THEN g
    ELSE SeedEvery(cpu_create_tiny_vector(g, Head(tiny)[1], Head(tiny)[2], Head(tiny)[3]),
                   Tail(tiny))

\* C4: inside one tick the phases are barriers: once the field has been
\* sampled for some particle every particle has been seeded, and no particle
\* has changed before the field has been sampled for all of them.
C4_PhaseBarriers ==
    pc # "idle"
    => /\ (pc \in {"sample", "update", "commit"} \/ tick.fitted # << >>)
            => /\ tick.seeded = Len(tick.tiny)
               /\ grid_buf = SeedEvery(tick.start_grid, tick.tiny)
       /\ (pc \in {"seed", "sync", "sample"} \/ Len(tick.fitted) < Len(tick.positions))
            => /\ heap = tick.start_heap
               /\ tick.new_markers = << >>

C4_Witness ==
    /\ pc = "update" /\ Len(tick.tiny) = 2 /\ Len(tick.fitted) = 2
    /\ Len(tick.new_markers) = 1 /\ heap # tick.start_heap

\* C5: inside one tick the particles sampled are the particles seeded, at
\* the same positions and in the same order: the list is not replaced
\* between the two phases.
C5_SampledAreSeeded ==
    pc \in {"sample", "update", "commit"}
    => /\ tick.positions = [i \in 1 .. Len(tick.tiny) |-> << tick.tiny[i][1], tick.tiny[i][2] >>]
       /\ markers = tick.start_markers

\* the scenario of C6 was the latest tick, and that tick is over
C6_Scenario ==
    /\ pc = "idle" /\ ticks >= 1
    /\ tick.start_grid = ZeroGrid3
    /\ Len(tick.start_markers) = 1
    /\ tick.start_heap[tick.start_markers[1]] = new_marker(ROne, ROne, ROne, RZero, RZero)
    /\ tick.start_stored = [present |-> TRUE, list |-> tick.start_markers]
    /\ tick.dt = ROne /\ tick.gravity = RZero /\ tick.speed_factor = ROne

\* C6: 3x3 zero grid, one particle at (1,1), magnitude 1, velocity 0,
\* gravity 0, damping 1, dt 1: after the step the particle's velocity is the
\* field sampled at (1,1) on the zero grid with the particle's own
\* splat_cross applied.
C6_SelfFeedbackIdentity ==
    C6_Scenario
    => LET m == heap[tick.start_markers[1]]
       IN  << m.vx, m.vy >> =
               cpu_fit_vector_at_position(
                   cpu_create_tiny_vector(ZeroGrid3, ROne, ROne, ROne), ROne, ROne)

C6_Witness == C6_Scenario /\ grid_buf # ZeroGrid3

(***************************************************************************)
(* Claims about the accelerated backend's life cycle (specification Spec)  *)
(***************************************************************************)
\* C11: constructing the accelerated backend never raises to its caller: when
\* device discovery, queue creation or kernel compilation fails, the caller
\* still holds an object, the object is unavailable, and a GPU_COMPUTE_ERROR
\* event carrying the error was published.
C11_ConstructionNeverRaises ==
    (last.op = "init" /\ last.arg # "ok")
    => /\ ~gpu_calculator.none
       /\ ~gpu_calculator.initialized
       /\ \E i \in 1 .. Len(bus_log) :
             bus_log[i] = Logged(Ev("GPU_COMPUTE_ERROR", last.arg), TRUE)

C11_Witness ==
    /\ last.op = "init" /\ last.arg = "compile_fail"
    /\ gpu_calculator.ctx = "held" /\ ~gpu_calculator.kernels /\ ~gpu_calculator.initialized

\* C12: cleanup of the accelerated backend is idempotent: every call, the
\* first and any later one, returns without raising and leaves the backend
\* torn down (no context, no queue, no kernels, unavailable).
C12_CleanupIdempotent ==
    last.op = "cleanup"
    => /\ last.ret
       /\ ~gpu_calculator.initialized
       /\ gpu_calculator.ctx # "held"
       /\ gpu_calculator.queue # "held"
       /\ ~gpu_calculator.kernels

(***************************************************************************)
(* Operations of the field specification: the operations of the            *)
(* sequential backend, each applied to a grid of the input set             *)
(***************************************************************************)
MaxSide == 3
MaxBatch == 2

\* grids of every size up to MaxSide: all zero, uniform, and cell-dependent
UniformValue == << Half, RInt(-1) >>
UniformGrid(w, h) == create_vector_grid(w, h, UniformValue)
RampGrid(w, h) ==
    [w |-> w, h |-> h, c |-> [p \in GridIdx(w, h) |-> << RInt(p[1] + 1), RInt(2 * p[2] - 1) >>]]
FieldSizes == (1 .. MaxSide) \X (1 .. MaxSide)
FieldGrids ==
    UNION {{create_vector_grid(z[1], z[2], VZero), UniformGrid(z[1], z[2]), RampGrid(z[1], z[2])} :
              z \in FieldSizes}
\* coordinates: outside on both sides, on the boundary, integer and fractional
FieldCoords == {RInt(-1)} \cup {Rat(k, 2) : k \in 0 .. 2 * MaxSide}
\* cell indices handed to sum_adjacent, also outside the grid
FieldCells == -1 .. MaxSide
FieldVectors == {<< ROne, RInt(2) >>}
\* <<self_weight, neighbor_weight>>: the defaults 1.0 and 0.1, and another
FieldWeights == {<< ROne, << 1, 10 >> >>, << Half, Quarter >>}
\* entries <<x, y, mag>> of a batch
FieldEntries == {<< RZero, RZero, ROne >>, << Half, ROne, RInt(2) >>, << RInt(3), Half, Half >>}
\* the centres and magnitudes handed to create_tiny_vector
CrossEntries == FieldCoords \X FieldCoords \X { Half }
RECURSIVE ListsUpTo(_, _)
ListsUpTo(S, n) ==
    IF n = 0 THEN {<< >>}
    ELSE LET shorter == ListsUpTo(S, n - 1)
         IN  shorter \cup {Append(l, e) : l \in shorter, e \in S}
FieldBatches == ListsUpTo(FieldEntries, MaxBatch)

FArgs(x, y, vx, vy, sw, nw, list) ==
    [x |-> x, y |-> y, vx |-> vx, vy |-> vy, sw |-> sw, nw |-> nw, list |-> list]

\* the four cells add_vector_at_position and fit_vector_at_position address:
\* [y0, x0], [y0, x1], [y1, x0], [y1, x1], as <<row, column>>
CornerCells(grid, px, py) ==
    {<< RFloor(ClampCoord(py, grid.h)), RFloor(ClampCoord(px, grid.w)) >>,
     << RFloor(ClampCoord(py, grid.h)), UpperIdx(RFloor(ClampCoord(px, grid.w)), grid.w) >>,
     << UpperIdx(RFloor(ClampCoord(py, grid.h)), grid.h), RFloor(ClampCoord(px, grid.w)) >>,
     << UpperIdx(RFloor(ClampCoord(py, grid.h)), grid.h),
        UpperIdx(RFloor(ClampCoord(px, grid.w)), grid.w) >>}

\* a call of add_vector_at_position: an index error inside its try block is
\* swallowed by `except Exception: pass`
cpu_splat_call(grid, x, y, vx, vy) ==
    IF CornerCells(grid, x, y) \subseteq GridIdx(grid.w, grid.h)
    THEN Res("ok", cpu_add_vector_at_position(grid, x, y, vx, vy), << >>)
    ELSE Res("caught", cpu_add_vector_at_position(grid, x, y, vx, vy), << >>)

\* a call of fit_vector_at_position: an index error reaches the caller
cpu_sample_call(grid, x, y) ==
    IF CornerCells(grid, x, y) \subseteq GridIdx(grid.w, grid.h)
    THEN Res("ok", grid, << cpu_fit_vector_at_position(grid, x, y) >>)
    ELSE Res("raised", grid, << >>)

\* a call of the dispatcher's fit_vectors_at_positions_batch
sample_batch_call(d, grid, positions) ==
    IF \A i \in 1 .. Len(positions) :
          CornerCells(grid, positions[i][1], positions[i][2]) \subseteq GridIdx(grid.w, grid.h)
    THEN vc_fit_vectors_at_positions_batch(d, grid, positions)
    ELSE Res("raised", grid, << >>)

\* the operation acts on grid g; its result is kept in grid_buf and last.
\* The operations are functions of their arguments: a behaviour is one call.
FieldDone(op, a, res, g) ==
    /\ last.op = "init"
    /\ grid_buf' = res.grid
    /\ last' = CalledCompute(op, "cpu", "cpu", a, res, g)
    /\ UNCHANGED << current_device, compute_device_cfg, gpu_calculator, bus_log >>
    /\ UNCHANGED << heap, markers, stored_markers, pc, tick, ticks >>
    /\ UNCHANGED xvars

FieldSplat(g, x, y, v) ==
    FieldDone("splat", FArgs(x, y, v[1], v[2], RZero, RZero, << >>),
              cpu_splat_call(g, x, y, v[1], v[2]), g)

FieldSample(g, x, y) ==
    FieldDone("sample", FArgs(x, y, RZero, RZero, RZero, RZero, << >>), cpu_sample_call(g, x, y), g)

FieldSplatCross(g, e) ==
    FieldDone("splat_cross", FArgs(e[1], e[2], e[3], RZero, RZero, RZero, << >>),
              Res("ok", cpu_create_tiny_vector(g, e[1], e[2], e[3]), << >>), g)

FieldSumAdjacent(g, cx, cy, w) ==
    FieldDone("sum_adjacent", FArgs(RInt(cx), RInt(cy), RZero, RZero, w[1], w[2], << >>),
              Res("ok", g, << cpu_sum_adjacent_vectors(g, cx, cy, w[1], w[2]) >>), g)

FieldDiffuse(g, w) ==
    FieldDone("diffuse", FArgs(RZero, RZero, RZero, RZero, w[1], w[2], << >>),
              Res("ok", cpu_update_grid_with_adjacent_sum(g, w[1], w[2]), << >>), g)

FieldSplatBatch(g, entries) ==
    FieldDone("splat_batch", FArgs(RZero, RZero, RZero, RZero, RZero, RZero, entries),
              vc_create_tiny_vectors_batch(D, g, entries), g)

FieldSampleBatch(g, entries) ==
    FieldDone("sample_batch", FArgs(RZero, RZero, RZero, RZero, RZero, RZero, entries),
              sample_batch_call(D, g, [i \in 1 .. Len(entries) |-> << entries[i][1], entries[i][2] >>]),
              g)

\* the dispatcher after construction without OpenCL, device "cpu"
FieldInit == Init /\ last.arg = "no_platform" /\ current_device = "cpu"

FieldNext ==
    \/ \E g \in FieldGrids, x \in FieldCoords, y \in FieldCoords, v \in FieldVectors :
          FieldSplat(g, x, y, v)
    \/ \E g \in FieldGrids, x \in FieldCoords, y \in FieldCoords : FieldSample(g, x, y)
    \/ \E g \in FieldGrids, e \in CrossEntries : FieldSplatCross(g, e)
    \/ \E g \in FieldGrids, cx \in FieldCells, cy \in FieldCells, w \in FieldWeights :
          FieldSumAdjacent(g, cx, cy, w)
    \/ \E g \in FieldGrids, w \in FieldWeights : FieldDiffuse(g, w)
    \/ \E g \in FieldGrids, entries \in FieldBatches : FieldSplatBatch(g, entries)
    \/ \E g \in FieldGrids, entries \in FieldBatches : FieldSampleBatch(g, entries)

\* The grid operations as functions of their arguments.
SpecField == FieldInit /\ [][FieldNext]_vars

(***************************************************************************)
(* Claims about the grid operations (specification SpecField)              *)
(***************************************************************************)
InRange(v, n) == ~RLt(v, RZero) /\ ~RLt(RInt(n - 1), v)

\* C13: for every coordinate, on the boundary and outside the grid included,
\* splat and sample do not raise and address only cells of the grid: the
\* coordinate is clamped into [0, W-1] x [0, H-1] and the four cells used lie
\* in [0, W) x [0, H).
C13_SplatSampleStayInGrid ==
    last.op \in {"splat", "sample"}
    => /\ last.outcome = "ok"
       /\ InRange(ClampCoord(last.a.x, last.grid_in.w), last.grid_in.w)
       /\ InRange(ClampCoord(last.a.y, last.grid_in.h), last.grid_in.h)
       /\ CornerCells(last.grid_in, last.a.x, last.a.y)
              \subseteq GridIdx(last.grid_in.w, last.grid_in.h)

C13_Witness ==
    /\ last.op = "splat" /\ last.a.x = RInt(MaxSide) /\ last.a.y = RInt(-1)
    /\ last.grid_in.w = 2 /\ last.grid_out # last.grid_in

\* the latest call had an all-zero grid and a coordinate that is a cell of it
IsCellCoord(v, n) == v[2] = 1 /\ 0 <= v[1] /\ v[1] <= n - 1
OnZeroGridAtCell ==
    /\ last.grid_in = create_vector_grid(last.grid_in.w, last.grid_in.h, VZero)
    /\ IsCellCoord(last.a.x, last.grid_in.w)
    /\ IsCellCoord(last.a.y, last.grid_in.h)

\* C14: on every grid size, splatting (vx, vy) at an integer-aligned (x, y)
\* of an all-zero grid, last row and last column included, and then sampling
\* at the same (x, y) returns (vx, vy).
C14_SplatThenSampleReturnsVector ==
    (last.op = "splat" /\ OnZeroGridAtCell)
    => cpu_sample_call(grid_buf, last.a.x, last.a.y).value = << << last.a.vx, last.a.vy >> >>

C14_Witness ==
    /\ last.op = "splat" /\ OnZeroGridAtCell
    /\ last.grid_in.w = MaxSide /\ last.grid_in.h = 2
    /\ last.a.x = RInt(MaxSide - 1) /\ last.a.y = ROne
    /\ grid_buf.c[<<1, MaxSide - 1>>] = << ROne, RInt(2) >>

\* C15: diffuse with weights self_w and neighbor_w on a grid whose cells all
\* hold the same value v leaves v * (self_w + 4 * neighbor_w) in every cell,
\* boundary and corner cells included.
C15_DiffuseUniform ==
    (last.op = "diffuse" /\ last.grid_in = UniformGrid(last.grid_in.w, last.grid_in.h))
    => \A p \in GridIdx(grid_buf.w, grid_buf.h) : \A k \in 1 .. 2 :
          grid_buf.c[p][k] = RMul(UniformValue[k], RAdd(last.a.sw, RMul(RInt(4), last.a.nw)))

C15_Witness ==
    /\ last.op = "diffuse" /\ last.grid_in = UniformGrid(MaxSide, 1)
    /\ last.a.sw = Half /\ last.a.nw = Quarter
    /\ grid_buf.c[<<0, 0>>] = << << 3, 4 >>, << -3, 2 >> >>

\* the old value of the cell nearest to (y, x)
OldNear(y, x) == last.grid_in.c[<< EdgeIdx(y, last.grid_in.h), EdgeIdx(x, last.grid_in.w) >>]

\* C16: diffuse is one simultaneous pass over the grid as it was before the
\* call: every cell of the caller's buffer ends as self_w times its old value
\* plus neighbor_w times the old values of its four axis neighbours, a
\* neighbour outside the grid being the nearest edge cell.
C16_DiffuseSinglePass ==
    last.op = "diffuse"
    => /\ grid_buf = last.grid_out
       /\ grid_buf.w = last.grid_in.w /\ grid_buf.h = last.grid_in.h
       /\ \A p \in GridIdx(grid_buf.w, grid_buf.h) : \A k \in 1 .. 2 :
             grid_buf.c[p][k] =
                 RAdd(RMul(last.a.sw, OldNear(p[1], p[2])[k]),
                      RMul(last.a.nw,
                           RAdd(RAdd(OldNear(p[1] - 1, p[2])[k], OldNear(p[1] + 1, p[2])[k]),
                                RAdd(OldNear(p[1], p[2] - 1)[k], OldNear(p[1], p[2] + 1)[k]))))

C16_Witness ==
    /\ last.op = "diffuse" /\ last.grid_in = RampGrid(2, 2)
    /\ last.a.sw = Half /\ last.a.nw = Quarter
    /\ grid_buf.c[<<0, 0>>] = << << 7, 4 >>, RInt(-1) >>

\* the old value of cell (y, x), zero outside the grid
ZeroOutside(y, x) ==
    IF << y, x >> \in GridIdx(last.grid_in.w, last.grid_in.h) THEN last.grid_in.c[<< y, x >>]
    ELSE VZero

\* C17: sum_adjacent(x, y, self_w, neighbor_w) on a cell of the grid returns
\* self_w times the cell's value plus neighbor_w times the sum of the values
\* of its four axis neighbours, a neighbour outside the grid counting as
\* zero; the grid is left as it was.
C17_SumAdjacentZeroOutside ==
    last.op = "sum_adjacent"
    => /\ grid_buf = last.grid_in
       /\ << last.a.y[1], last.a.x[1] >> \in GridIdx(last.grid_in.w, last.grid_in.h)
             => \A k \in 1 .. 2 :
                   last.value[1][k] =
                       RAdd(RMul(last.a.sw, ZeroOutside(last.a.y[1], last.a.x[1])[k]),
                            RMul(last.a.nw,
                                 RAdd(RAdd(ZeroOutside(last.a.y[1] - 1, last.a.x[1])[k],
                                           ZeroOutside(last.a.y[1] + 1, last.a.x[1])[k]),
                                      RAdd(ZeroOutside(last.a.y[1], last.a.x[1] - 1)[k],
                                           ZeroOutside(last.a.y[1], last.a.x[1] + 1)[k]))))

C17_Witness ==
    /\ last.op = "sum_adjacent" /\ last.grid_in = RampGrid(2, 2)
    /\ last.a.x = RZero /\ last.a.y = RZero /\ last.a.sw = Half /\ last.a.nw = Quarter
    /\ last.value = << << << 5, 4 >>, << -1, 2 >> >> >>

\* C18: sample_batch(coords) returns a list as long as coords whose i-th
\* element is sample(coords[i]) on the same grid, for the empty list too, and
\* leaves the grid as it was.
C18_SampleBatchIsPerElement ==
    last.op = "sample_batch"
    => /\ last.outcome = "ok"
       /\ grid_buf = last.grid_in
       /\ Len(last.value) = Len(last.a.list)
       /\ \A i \in 1 .. Len(last.a.list) :
             << last.value[i] >> =
                 cpu_sample_call(last.grid_in, last.a.list[i][1], last.a.list[i][2]).value

C18_Witness ==
    /\ last.op = "sample_batch" /\ Len(last.a.list) = 2 /\ Len(last.value) = 2
    /\ last.value[1] # last.value[2]

\* the rearrangements of a list
Rearrangements(list) ==
    {[i \in 1 .. Len(list) |-> list[f[i]]] :
        f \in {h \in [1 .. Len(list) -> 1 .. Len(list)] :
                  \A i, j \in 1 .. Len(list) : h[i] = h[j] => i = j}}

\* C19: splat_batch(entries) leaves the grid as one splat_cross(x, y, mag) per
\* entry does, and the final grid is the same for every permutation of the
\* entries.
C19_SplatBatchIsPerEntry ==
    last.op = "splat_batch"
    => /\ last.outcome = "ok"
       /\ grid_buf = SeedEvery(last.grid_in, last.a.list)
       /\ \A q \in Rearrangements(last.a.list) :
             vc_create_tiny_vectors_batch(D, last.grid_in, q).grid = grid_buf

C19_Witness ==
    /\ last.op = "splat_batch" /\ Len(last.a.list) = 2 /\ last.a.list[1] # last.a.list[2]
    /\ last.a.list[1][1] = RInt(3)
    /\ grid_buf # last.grid_in
    /\ grid_buf # SeedEvery(last.grid_in, << last.a.list[1] >>)

(***************************************************************************)
(* Claims about the particles (specification SpecTick)                     *)
(***************************************************************************)
\* the latest step is over and the particle list is the one it produced
JustStepped == pc = "idle" /\ ticks >= 1 /\ markers = tick.new_markers

\* C20: after every step the position of every particle lies in
\* [0, W-1] x [0, H-1], whatever the raw position and the magnitude it was
\* added with.
C20_PositionsInGridAfterStep ==
    JustStepped
    => \A i \in 1 .. Len(markers) :
          /\ InRange(heap[markers[i]].x, grid_buf.w)
          /\ InRange(heap[markers[i]].y, grid_buf.h)

C20_Witness ==
    /\ JustStepped
    /\ \E i \in 1 .. Len(markers) :
          /\ tick.start_heap[markers[i]].x = RInt(5)
          /\ tick.start_heap[markers[i]].y = RInt(-2)
          /\ heap[markers[i]].mag = RZero
          /\ heap[markers[i]].vx = RNaN
          /\ heap[markers[i]].x = RInt(grid_buf.w - 1)
          /\ heap[markers[i]].y \in { RZero, RInt(grid_buf.h - 1) }

\* the velocity after the feedback update and the speed clamp, from the values
\* the step started with
ClampedVelocity(i) ==
    clamp_velocity(RAdd(tick.start_heap[markers[i]].vx,
                        RDiv(tick.fitted[i][1], tick.start_heap[markers[i]].mag)),
                   RAdd(tick.start_heap[markers[i]].vy,
                        RDiv(tick.fitted[i][2], tick.start_heap[markers[i]].mag)),
                   cell_size)

\* C21: in a step the position advances by the clamped velocity times dt,
\* before gravity and damping, and the velocity stored at the end is
\* (vx_c * damping, (vy_c + gravity * dt) * damping).
C21_StepOrder ==
    JustStepped
    => \A i \in 1 .. Len(markers) :
          /\ heap[markers[i]].x =
                ClampCoord(RAdd(tick.start_heap[markers[i]].x,
                                RMul(ClampedVelocity(i)[1], tick.dt)), grid_buf.w)
          /\ heap[markers[i]].y =
                ClampCoord(RAdd(tick.start_heap[markers[i]].y,
                                RMul(ClampedVelocity(i)[2], tick.dt)), grid_buf.h)
          /\ heap[markers[i]].vx = RMul(ClampedVelocity(i)[1], tick.speed_factor)
          /\ heap[markers[i]].vy =
                RMul(RAdd(ClampedVelocity(i)[2], RMul(tick.gravity, tick.dt)),
                     tick.speed_factor)

\* a particle that moved inside the grid in a step with gravity and damping
C21_Witness ==
    /\ JustStepped
    /\ tick.gravity # RZero
    /\ tick.speed_factor # ROne
    /\ \E i \in 1 .. Len(markers) :
          /\ ClampedVelocity(i)[1] \notin { RZero, RNaN }
          /\ heap[markers[i]].x # tick.start_heap[markers[i]].x
          /\ RLt(RZero, heap[markers[i]].x)
          /\ RLt(heap[markers[i]].x, RInt(grid_buf.w - 1))

\* the velocity after the feedback update of the step, before the speed clamp
FeedbackVelocity(i) ==
    << RAdd(tick.start_heap[markers[i]].vx,
            RDiv(tick.fitted[i][1], tick.start_heap[markers[i]].mag)),
       RAdd(tick.start_heap[markers[i]].vy,
            RDiv(tick.fitted[i][2], tick.start_heap[markers[i]].mag)) >>

NormSq(v) == RAdd(RMul(v[1], v[1]), RMul(v[2], v[2]))
AtMost(a, b) == RLt(a, b) \/ (a = b /\ a # RNaN)
SameDirection(u, v) ==
    /\ RMul(u[1], v[2]) = RMul(u[2], v[1])
    /\ ~RLt(RMul(u[1], v[1]), RZero)
    /\ ~RLt(RMul(u[2], v[2]), RZero)

\* the speed clamp as stated, for particle i of the step just taken
SpeedClamped(i) ==
    /\ AtMost(NormSq(ClampedVelocity(i)), RMul(cell_size, cell_size))
    /\ AtMost(NormSq(FeedbackVelocity(i)), RMul(cell_size, cell_size))
          => ClampedVelocity(i) = FeedbackVelocity(i)
    /\ RLt(RMul(cell_size, cell_size), NormSq(FeedbackVelocity(i)))
          => /\ NormSq(ClampedVelocity(i)) = RMul(cell_size, cell_size)
             /\ SameDirection(ClampedVelocity(i), FeedbackVelocity(i))

\* C22: in a step the velocity used for position integration has norm at most
\* cell_size: a faster velocity is rescaled to norm cell_size with its
\* direction kept, a slower one is left unchanged.
C22_SpeedClamped ==
    JustStepped => \A i \in 1 .. Len(markers) : SpeedClamped(i)

\* the same for the particles whose magnitude is not zero
C22_SpeedClampedNonzeroMagnitude ==
    JustStepped
    => \A i \in 1 .. Len(markers) :
          heap[markers[i]].mag # RZero => SpeedClamped(i)

\* a particle faster than cell_size after the feedback update was rescaled
C22_RescaledWitness ==
    /\ JustStepped
    /\ \E i \in 1 .. Len(markers) :
          /\ heap[markers[i]].mag # RZero
          /\ RLt(RMul(cell_size, cell_size), NormSq(FeedbackVelocity(i)))
          /\ ClampedVelocity(i) # FeedbackVelocity(i)

\* the state manager held the engine's own particle list when the step
\* started: nothing but add, clear and step has written it
OwnListAtStart == tick.start_stored.present => tick.start_stored.list = tick.start_markers

\* the particle list changed between two steps: by add or by clear
ListChangedWhileIdle == pc = "idle" /\ pc' = "idle" /\ markers' # markers

\* add: exactly one particle, with the raw values, at the end
AppendedOneRaw ==
    /\ Len(heap') = Len(heap) + 1
    /\ markers' = Append(markers, Len(heap'))
    /\ \A id \in 1 .. Len(heap) : heap'[id] = heap[id]
    /\ \E a \in AddArgs : heap'[Len(heap')] = [x |-> a[1], y |-> a[2], mag |-> a[3],
                                              vx |-> RZero, vy |-> RZero]

\* C23: the particle collection is insertion-ordered: add appends exactly one
\* particle holding the raw given values at the end, clear empties the
\* collection, and a step changes neither the number of particles nor their
\* order, for any sequence of add, step and clear.
C23_InsertionOrdered ==
    [][ /\ ListChangedWhileIdle => (AppendedOneRaw \/ markers' = << >>)
        /\ (pc = "commit" /\ pc' = "idle" /\ OwnListAtStart)
              => markers' = tick.start_markers ]_vars

\* a step over two added particles, the first of them added outside the grid
C23_Witness ==
    /\ JustStepped
    /\ OwnListAtStart
    /\ Len(markers) = 2
    /\ markers = tick.start_markers
    /\ tick.start_heap[markers[1]].x = RInt(5)
    /\ tick.start_heap[markers[2]].x # RInt(5)

\* the particles of the handed-out list, as its holder reads them now
SnapshotNow == [i \in 1 .. Len(snapshot.list) |-> heap[snapshot.list[i]]]

\* no step has run since the list was handed out
NoStepSince == pc = "idle" /\ ticks = snapshot.ticks

\* C24: a list returned by get_markers is a copy: changing the list or a field
\* of a particle in it does not change the particles the engine holds, and a
\* later step does not change a list taken earlier. The particles of the list
\* keep the values they had (seen) unless the holder changed them, and the
\* engine's particles keep theirs unless a step ran.
C24_SnapshotIsCopy ==
    (snapshot.taken /\ (~snapshot.touched \/ NoStepSince)) => SnapshotNow = snapshot.seen

\* removing an element of the handed-out list leaves the engine's list alone
C24_ListIsCopy ==
    [][ (snapshot.taken /\ snapshot'.list # snapshot.list) => markers' = markers ]_vars

C24_ListWitness ==
    /\ snapshot.taken /\ Len(snapshot.list) < Len(markers) /\ Len(markers) = 2
    /\ \A i \in 1 .. Len(snapshot.list) : snapshot.list[i] = markers[i + 1]

(***************************************************************************)
(* Claims about the grid manager (specification SpecGrid)                  *)
(***************************************************************************)
\* the shape a stored buffer has to have: the grid's, and before there is a
\* grid the recorded height and width
TargetShape == IF gm.grid.kind # "none" THEN gm.grid.shape ELSE << gm.height, gm.width, 2 >>

\* this step is load_grid on a readable buffer whose shape is not the target's
LoadsMismatched ==
    /\ gm'.last.op = "load_grid"
    /\ gm'.last.arg = gm.file
    /\ gm'.file = gm.file
    /\ gm.file.kind = "array"
    /\ gm.file.shape # TargetShape

LoadRejected ==
    /\ gm'.last.ret = FALSE
    /\ gm'.grid = gm.grid
    /\ gm'.width = gm.width
    /\ gm'.height = gm.height
    /\ gm'.log = << >>

\* C25: loading a stored buffer whose shape differs from the target grid's
\* shape fails and is atomic: load returns failure, the grid and the recorded
\* width and height are as before, no GRID_LOADED is published.
C25_MismatchedLoadIsAtomic == [][ LoadsMismatched => LoadRejected ]_vars

\* the same when the manager holds a grid
C25_MismatchedLoadIsAtomicWithGrid ==
    [][ (LoadsMismatched /\ gm.grid.kind # "none") => LoadRejected ]_vars

\* a load of a buffer of another shape was rejected and the grid, changed
\* since init_grid, is still there
C25_RejectedWitness ==
    /\ gm.last = [op |-> "load_grid", arg |-> UniformBuf(<< 2, 3, 2 >>, 1), ret |-> FALSE]
    /\ gm.grid.kind = "array"
    /\ gm.grid.shape = << 2, 2, 2 >>
    /\ gm.grid # UniformBuf(<< 2, 2, 2 >>, 0)
    /\ gm.width = 2 /\ gm.height = 2

(***************************************************************************)
(* Claims about the configuration (specification SpecConfig)               *)
(***************************************************************************)
\* this step is a set that returned False
SetRejected == config_manager'.last.op = "set" /\ config_manager'.last.ret = FALSE /\ config_manager' # config_manager

NoConfigChanged(log) == \A i \in 1 .. Len(log) : log[i].type # "CONFIG_CHANGED"

\* C26: a set that rejects its value is a no-op: get(key) returns afterwards
\* what it returned before, for registered and for unknown keys alike, and no
\* CONFIG_CHANGED is published.
C26_RejectedSetIsNoOp ==
    [][ SetRejected
        => /\ config_get(config_manager', config_manager'.last.key) = config_get(config_manager, config_manager'.last.key)
           /\ NoConfigChanged(config_manager'.log) ]_vars

\* the same for the keys registered before the call
C26_RejectedSetIsNoOpRegistered ==
    [][ (SetRejected /\ config_manager.options[config_manager'.last.key].registered)
        => /\ config_get(config_manager', config_manager'.last.key) = config_get(config_manager, config_manager'.last.key)
           /\ NoConfigChanged(config_manager'.log) ]_vars

\* an out-of-range value was rejected after the key had been set to another
C26_RejectedWitness ==
    /\ config_manager.last = [op |-> "set", key |-> "target_fps", value |-> Num(0), ret |-> FALSE]
    /\ config_get(config_manager, "target_fps") = Num(120)

(***************************************************************************)
(* Claims about the event bus (specification SpecBus)                      *)
(***************************************************************************)
\* the latest operation was a top-level publish whose event passed the
\* filters and the depth check
Published ==
    /\ event_bus.last.op = "publish"
    /\ FiltersPass(event_bus, event_bus.last.type)
    /\ event_bus.max_depth > 0

CalledAt(h, type, depth) == << h, type, depth >> \in event_bus.calls

\* C27: an exception raised by a handler never propagates to the publisher:
\* publish returns normally and every other handler subscribed to the event
\* type still receives the event.
C27_HandlerExceptionContained ==
    event_bus.last.op = "publish"
    => /\ ~event_bus.last.raised
       /\ Published
             => \A i \in 1 .. Len(event_bus.handlers[event_bus.last.type]) :
                   CalledAt(event_bus.handlers[event_bus.last.type][i], event_bus.last.type, 1)

\* a handler raised and the handler subscribed after it got the event
C27_Witness ==
    /\ Published
    /\ event_bus.handlers[event_bus.last.type] = << "raises", "returns" >>
    /\ CalledAt("raises", event_bus.last.type, 1)
    /\ CalledAt("returns", event_bus.last.type, 1)

\* no subscriber raises: the bus publishes no error event, so a republishing
\* handler is the only source of nested publishes of its event type
NoHandlerRaises == \A t \in BusTypes : ~InSeq("raises", event_bus.handlers[t])

\* the top-level publish reached the republishing handler of its event type
Republished ==
    /\ event_bus.last.op = "publish"
    /\ FiltersPass(event_bus, event_bus.last.type)
    /\ InSeq("republishes", event_bus.handlers[event_bus.last.type])
    /\ NoHandlerRaises

C29_HistoryBounded ==
    Len(state_manager.change_history) <= state_manager.max_history_size

\* the same for the histories that set and update leave
C29_HistoryBoundedAfterSet ==
    state_manager.last.op \in {"set", "update"}
    /\ state_manager.last.pre_len <= state_manager.max_history_size
    => Len(state_manager.change_history) <= state_manager.max_history_size

\* the latest operation restored the held snapshot
Restored == state_manager.last.op = "restore_snapshot"

\* C30: restore_snapshot(s) makes the state equal to the state at the time s
\* was taken with create_snapshot, whatever set, remove or clear operations
\* happened in between, and those operations never alter the contents of s.
C30_RestoreSnapshot ==
    /\ state_manager.held.taken => state_manager.held.state = state_manager.held.created
    /\ Restored => state_manager.state = state_manager.held.created

\* restored with a key added since the snapshot gone and a key removed since
\* back
C30_Witness ==
    /\ Restored
    /\ state_manager.state = state_manager.held.created
    /\ \E added \in StateKeys :
          /\ state_manager.held.created[added] = Absent
          /\ state_manager.last.pre[added] # Absent
    /\ \E removed \in StateKeys :
          /\ state_manager.held.created[removed] # Absent
          /\ state_manager.last.pre[removed] = Absent

\* the latest operation was set(key, value, notify)
WasSet == state_manager.last.op = "set"
\* set had to notify: notify was true and the value differs from the old one
MustNotify ==
    /\ state_manager.last.notify
    /\ state_manager.last.pre[state_manager.last.key] # state_manager.last.value
\* the listeners registered for the key when set was called
ListenersOfKey == state_manager.last.pre_listeners[state_manager.last.key]
\* listener l was called exactly once for the key of set, with the key, the
\* old and the new value
HeardOnce(l) ==
    /\ state_manager.invoked[<< l, state_manager.last.key >>] = 1
    /\ << l, state_manager.last.key, state_manager.last.pre[state_manager.last.key],
          state_manager.last.value >> \in state_manager.heard
\* no call but those of HeardOnce
HeardNoOther ==
    /\ \A c \in StateListeners \X StateKeys :
          state_manager.invoked[c] > 0
          => c[2] = state_manager.last.key /\ InSeq(c[1], ListenersOfKey)
    /\ \A h \in state_manager.heard :
          h = << h[1], state_manager.last.key,
                 state_manager.last.pre[state_manager.last.key], state_manager.last.value >>

\* C31: set calls each listener registered for the key exactly once with
\* (key, old value, new value) when notify is true and the value differs, and
\* calls no listener when notify is false or the value is unchanged; a
\* listener removed with remove_listener is never called afterwards.
C31_ListenersNotified ==
    WasSet
    => IF MustNotify
       THEN /\ \A i \in 1 .. Len(ListenersOfKey) : HeardOnce(ListenersOfKey[i])
            /\ HeardNoOther
       ELSE state_manager.heard = {}

\* the same for listeners that do not touch the list of listeners from
\* inside their callback
C31_ListenersNotifiedNoReentry ==
    WasSet /\ ~InSeq("once", ListenersOfKey)
    => IF MustNotify
       THEN /\ \A i \in 1 .. Len(ListenersOfKey) : HeardOnce(ListenersOfKey[i])
            /\ HeardNoOther
       ELSE state_manager.heard = {}

\* two listeners were called once each, the first of them raised
C31_NotifiedWitness ==
    /\ WasSet
    /\ MustNotify
    /\ ListenersOfKey = << "raises", "returns" >>
    /\ HeardOnce("raises")
    /\ HeardOnce("returns")

\* threads that hold an object made for the type and have not returned it
InFlight(type) ==
    Cardinality({ t \in Threads : /\ container.threads[t].pc = "return"
                                  /\ container.threads[t].type = type
                                  /\ container.threads[t].result # NoInstance })

\* the factory of a singleton service was called at most once and every
\* resolve gave back the one instance
SingletonResolved(d) ==
    /\ d.calls <= 1
    /\ d.returned \subseteq { d.instance } \ { NoInstance }
\* every resolve of a transient service called the factory and gave back an
\* object no other resolve gave back
TransientResolved(type, d) ==
    /\ d.calls = d.resolved + InFlight(type)
    /\ Cardinality(d.returned) = d.resolved
    /\ d.instance = NoInstance

\* C32: for a service registered as a singleton the factory is invoked at most
\* once and every resolve returns the same instance, however the resolves of
\* concurrent threads interleave; for a service registered as transient every
\* resolve invokes the factory and returns a new instance.
C32_SingletonOnceTransientFresh ==
    \A type \in ServiceTypes :
        container.services[type].registered =>
            IF container.services[type].singleton
            THEN SingletonResolved(container.services[type])
            ELSE TransientResolved(type, container.services[type])

\* both threads resolved one singleton service whose factory made the
\* instance, the second thread last
C32_Witness ==
    /\ container.last.op = "resolve"
    /\ container.last.thread = 2
    /\ container.last.result # NoInstance
    /\ \E type \in ServiceTypes :
          /\ container.last.type = type
          /\ container.services[type].singleton
          /\ container.services[type].calls = 1
          /\ container.services[type].resolved = 2

\* both resolves of a transient service returned
C32_TransientWitness ==
    \E type \in ServiceTypes :
        /\ container.services[type].registered
        /\ ~container.services[type].singleton
        /\ container.services[type].resolved = 2
\* the singleton instances the operation found, those with a cleanup method
CleanedUp(type) ==
    LET id == singleton_instance(container.last.pre[type])
    IN  id # NoInstance /\ container.last.pre_instances[id].kind # "plain"
            => container.instances[id].cleanups =
                   container.last.pre_instances[id].cleanups + 1
\* a resolve of a type that is not registered gives None
UnregisteredResolvesNone ==
    \A t \in Threads :
        /\ container.threads[t].pc = "return"
        /\ ~container.services[container.threads[t].type].registered
        => container.threads[t].result = NoInstance

\* C33: after Container.clear() no type is registered, resolve returns None
\* for every type, and cleanup was called on every instantiated singleton
\* that defines it, also when the cleanup of another one raised;
\* remove(type) does the same for the one type.
C33_ClearRemoveCleanup ==
    /\ UnregisteredResolvesNone
    /\ container.last.op = "clear" =>
          \A type \in ServiceTypes :
              ~container.services[type].registered /\ CleanedUp(type)
    /\ container.last.op = "remove" =>
          ~container.services[container.last.type].registered
              /\ CleanedUp(container.last.type)

\* clear found two instantiated singletons with a cleanup method, the first
\* one's cleanup raises
C33_Witness ==
    /\ container.last.op = "clear"
    /\ \A type \in ServiceTypes : singleton_instance(container.last.pre[type]) # NoInstance
    /\ container.last.pre_instances[
           singleton_instance(container.last.pre[Head(TypeOrder)])].kind = "cleanup_raises"
    /\ container.last.pre_instances[
           singleton_instance(container.last.pre[TypeOrder[2]])].kind = "cleanup"
\* the name of a word in lower case and without slashes
Spelled(word) == Word(word.name, FALSE, 0)
\* the command string with its name in lower case and without slashes
SpelledLower(parts) == IF parts = << >> THEN parts ELSE << Spelled(Head(parts)) >> \o Tail(parts)
\* the method a command string names, whatever the case of the name
Target(parts) == command.commands[Spelled(Head(parts))]
\* the command strings the claim lists: empty, an unknown name, arguments
\* for a command that takes none, a number of arguments that is not the
\* number of parameters of the method
Rejected(parts) ==
    \/ parts = << >>
    \/ Target(parts) = NoMethod
    \/ Len(parts) > 1 /\ Spelled(Head(parts)) \in command.no_param_commands
    \/ Len(parts) - 1 # parameter_count[Target(parts)]
\* the command before the last execute
BeforeExecute == [command EXCEPT !.called = command.last.pre_called]

SubscribedToLast == { h \in BusHandlers : InSeq(h, event_bus.handlers[event_bus.last.type]) }
\* the filter the handler came with
GivenFilter(h) == event_bus.given[<< h, event_bus.last.type >>]
\* the handler did not get the published event
NotDelivered(h) == event_bus.invoked[<< h, event_bus.last.type >>] = 0

\* C35: a handler subscribed with a filter receives a published event of the
\* type only if its filter accepts the event, and the filter affects only that
\* handler: a handler subscribed to the same type without a filter receives
\* the event whatever the filters of the other handlers, those of handlers
\* since unsubscribed included.
C35_FilterOwnHandlerOnly ==
    event_bus.last.op = "publish" =>
        \A h \in SubscribedToLast :
            /\ GivenFilter(h) = "reject" => NotDelivered(h)
            /\ GivenFilter(h) = "none" => CalledAt(h, event_bus.last.type, 1)

\* the part of C35 the bus keeps: a handler whose own filter rejects the
\* event does not receive it
C35_OwnFilterRejects ==
    event_bus.last.op = "publish" =>
        \A h \in SubscribedToLast : GivenFilter(h) = "reject" => NotDelivered(h)

\* an event was published to a handler subscribed with a rejecting filter
C35_RejectWitness ==
    /\ event_bus.last.op = "publish"
    /\ \E h \in SubscribedToLast : GivenFilter(h) = "reject"

\* an event was published to a handler without a filter while the filter of
\* a handler no longer subscribed rejects it
C35_OrphanFilter ==
    /\ event_bus.last.op = "publish"
    /\ InSeq("reject", event_bus.filters[event_bus.last.type])
    /\ SubscribedToLast # {}
    /\ \A h \in SubscribedToLast : GivenFilter(h) = "none" /\ NotDelivered(h)
\* C36: in every reachable state, after construction, set_device calls,
\* APP_INITIALIZED events and CONFIG_CHANGED events with arbitrary values for
\* the device key, the active device is "cpu" or "gpu".
C36_ActiveDeviceKnown == current_device \in {"cpu", "gpu"}

\* set_device alone never leaves another device than the one it was asked for
C36_SetDeviceKnown == (IsSetDevice /\ last.ret) => current_device \in {"cpu", "gpu"}

\* C37: after any sequence of set_device calls and ConfigManager.set calls on
\* the compute-device key, all events handled, the device stored under the
\* configuration key is the active device of the dispatcher.
C37_ConfigMatchesActiveDevice == compute_device_cfg = current_device

\* the notifications of a device change handed to the bus by the last call
DeviceNotifications == { i \in 1 .. Len(bus_log) : bus_log[i].type = "APP_INITIALIZED" }

\* C38: a successful set_device publishes the device-changed notification
\* exactly once: handling it does not enter set_device again and publishes
\* nothing further.
C38_SetDevicePublishesOnce ==
    (IsSetDevice /\ last.ret) => Cardinality(DeviceNotifications) = 1

\* what happens instead: set_device is entered again from the handler until
\* the bus refuses the publish at its recursion limit
C38_ReentersUntilDepthLimit ==
    (IsSetDevice /\ last.ret)
    => /\ Cardinality(DeviceNotifications) = max_recursion_depth + 1
       /\ ~bus_log[Len(bus_log)].delivered
       /\ bus_log[Len(bus_log)].type = "APP_INITIALIZED"
\* the sum of component k over the first n cells of the grid, row by row
RECURSIVE SumCells(_, _, _)
SumCells(grid, n, k) ==
    IF n = 0 THEN RZero
    ELSE RAdd(SumCells(grid, n - 1, k),
              grid.c[<< (n - 1) \div grid.w, (n - 1) % grid.w >>][k])
\* the sum of all cells
GridSum(grid) ==
    << SumCells(grid, grid.w * grid.h, 1), SumCells(grid, grid.w * grid.h, 2) >>
\* the weights add_vector_at_position uses at the position
WeightsAt(grid, px, py) ==
    BilinearWeights(RSub(ClampCoord(px, grid.w), RInt(RFloor(ClampCoord(px, grid.w)))),
                    RSub(ClampCoord(py, grid.h), RInt(RFloor(ClampCoord(py, grid.h)))))
SumOf4(w) == RAdd(RAdd(RAdd(w[1], w[2]), w[3]), w[4])

\* C39: for every coordinate, inside the grid, on its boundary where the
\* clamped corner indices coincide, or outside it, splat(x, y, vx, vy) changes
\* the sum of all cells by exactly (vx, vy): the four weights are not
\* negative and sum to 1, and cells other than the corner cells are unchanged.
C39_SplatAddsVectorToSum ==
    last.op = "splat"
    => /\ GridSum(last.grid_out) =
              << RAdd(GridSum(last.grid_in)[1], last.a.vx),
                 RAdd(GridSum(last.grid_in)[2], last.a.vy) >>
       /\ \A i \in 1 .. 4 : ~RLt(WeightsAt(last.grid_in, last.a.x, last.a.y)[i], RZero)
       /\ SumOf4(WeightsAt(last.grid_in, last.a.x, last.a.y)) = ROne
       /\ \A p \in GridIdx(last.grid_in.w, last.grid_in.h) :
             p \notin CornerCells(last.grid_in, last.a.x, last.a.y)
                => last.grid_out.c[p] = last.grid_in.c[p]

\* a splat at a fractional row on the last column of a grid that is not
\* zero: two distinct corner cells, each addressed twice
C39_Witness ==
    /\ last.op = "splat"
    /\ last.a.x = RInt(MaxSide) /\ last.a.y = Half
    /\ last.grid_in.w = 2 /\ last.grid_in.h = 2
    /\ Cardinality(CornerCells(last.grid_in, last.a.x, last.a.y)) = 2
    /\ last.grid_in # create_vector_grid(2, 2, VZero)
    /\ last.grid_out # last.grid_in

\* the four splats of the claim on the clamped centre (x, y)
FourSplats(grid, x, y, mag) ==
    cpu_add_vector_at_position(
        cpu_add_vector_at_position(
            cpu_add_vector_at_position(
                cpu_add_vector_at_position(grid, RSub(x, ROne), y, RNeg(mag), RZero),
                RAdd(x, ROne), y, mag, RZero),
            x, RSub(y, ROne), RZero, RNeg(mag)),
        x, RAdd(y, ROne), RZero, mag)

\* C40: splat_cross(x, y, mag) clamps (x, y) into the grid and then does four
\* splats, (-mag, 0) at (x-1, y), (mag, 0) at (x+1, y), (0, -mag) at (x, y-1)
\* and (0, mag) at (x, y+1), each clamped again by splat; it leaves the sum
\* of all cells unchanged for every position, those on the boundary included.
C40_SplatCrossKeepsSum ==
    last.op = "splat_cross"
    => /\ last.grid_out =
              FourSplats(last.grid_in, ClampCoord(last.a.x, last.grid_in.w),
                         ClampCoord(last.a.y, last.grid_in.h), last.a.vx)
       /\ GridSum(last.grid_out) = GridSum(last.grid_in)

\* a splat_cross centred outside the grid, beyond its last column
C40_Witness ==
    /\ last.op = "splat_cross"
    /\ last.a.x = RInt(MaxSide) /\ last.a.y = RZero
    /\ last.grid_in.w = 2 /\ last.grid_in.h = 2
    /\ last.grid_out # last.grid_in
====
